---------------------------- MODULE Spec2Model ----------------------------
(***************************************************************************)
(* Model of the image-generation backend (app/routers/ai.py): the semantic *)
(* ranker, the vision reranker, the credit ledger, the resolution of the   *)
(* referenced datasets and the generate_image request pipeline; and of     *)
(* delete_folder (app/routers/environments.py).                            *)
(***************************************************************************)
EXTENDS Integers, Sequences, FiniteSets, TLC

(***************************************************************************)
(* Bounds of the model.  The batch sizes and the reference-image cap are   *)
(* the program's constants scaled down so that several batches and the cap *)
(* itself are reached with a handful of images.                            *)
(***************************************************************************)
\* largest number of image rows in a candidate pool
MaxPool == 4
\* similarity levels 0..MaxSim returned for an embedding pair
MaxSim == 2
\* EMBED_BATCH_SIZE (200 in the program), scaled
EMBED_BATCH_SIZE == 2

(***************************************************************************)
(* State.  rank_*: one call of _find_relevant_images_semantic; rr_*: one   *)
(* call of _rerank_images_with_vision; credit_balances, credit_transactions*)
(* and usage_logs: the ledger tables of one user; d_*: the position, the   *)
(* arguments and the locals of each call of _deduct_credits; g_pc and the  *)
(* names after it: one generate_image request, its locals, the calls it    *)
(* made to the generation provider, the generated-images bucket and table, *)
(* and the HTTP response it ended with (download_failed: the reference     *)
(* images the request could not load); res_*: one resolution of the        *)
(* datasets a request references, and resolved_ids, the list it builds;     *)
(* datasets, dataset_images: the folder and image tables, dataset_blobs:   *)
(* the dataset-images bucket, del_call: one call of delete_folder;         *)
(* environments: the current user's rows of the environments table,        *)
(* env_call: the create_environment and update_environment calls; mn_*:    *)
(* one call of a mention helper (_extract_prompt_dataset_mentions,         *)
(* _match_dataset_by_name, the path-mention step of the resolver) with its *)
(* arguments and its result; af_*: one analyze_dataset_images_fast         *)
(* request, its per-URL tasks and the response it ended with.              *)
(***************************************************************************)
VARIABLES rank_images_data, rank_max_images, rank_embed, rank_call, rank_selected,
          rank_scored,
          rr_images_data, rr_max_images, rr_loop, rr_call, rr_selected,
          credit_balances, credit_transactions, usage_logs,
          d_pc, d_credits, d_action, d_balance, d_result,
          g_pc, GOOGLE_API_KEY, current_user, ranked_images, reference_images,
          full_prompt, images_to_send, attempt, parts, gen_try, provider_log,
          response, storage_objects, generated_images, generation_id, g_result,
          download_failed,
          res_request, res_lookup, res_call, resolved_ids,
          datasets, dataset_images, dataset_blobs, del_call,
          environments, env_call,
          mn_prompt, mn_query, mn_datasets, mn_environments, mn_call, mn_result,
          af_request, af_tasks, af_pc, af_result

rankVars == <<rank_images_data, rank_max_images, rank_embed, rank_call,
              rank_selected, rank_scored>>

rrVars == <<rr_images_data, rr_max_images, rr_loop, rr_call, rr_selected>>

ledgerVars == <<credit_balances, credit_transactions, usage_logs>>

deductVars == <<d_pc, d_credits, d_action, d_balance, d_result>>

genLocals == <<ranked_images, reference_images, full_prompt, images_to_send, attempt,
               parts, gen_try, provider_log, response, download_failed>>

genStores == <<storage_objects, generated_images, generation_id>>

genVars == <<g_pc, GOOGLE_API_KEY, current_user, genLocals, genStores, g_result>>

resVars == <<res_request, res_lookup, res_call, resolved_ids>>

delVars == <<datasets, dataset_images, dataset_blobs, del_call>>

envVars == <<environments, env_call>>

mentionVars == <<mn_prompt, mn_query, mn_datasets, mn_environments, mn_call, mn_result>>

fastVars == <<af_request, af_tasks, af_pc, af_result>>

vars == <<rankVars, rrVars, ledgerVars, deductVars, genVars, resVars, delVars, envVars,
          mentionVars, fastVars>>

rankOthers == <<rrVars, ledgerVars, deductVars, genVars, resVars, delVars,
    envVars, mentionVars, fastVars>>
rrOthers == <<rankVars, ledgerVars, deductVars, genVars, resVars, delVars,
    envVars, mentionVars, fastVars>>
creditsOthers == <<rankVars, rrVars, genVars, resVars, delVars,
    envVars, mentionVars, fastVars>>
genOthers == <<rankVars, rrVars, resVars, delVars,
    envVars, mentionVars, fastVars>>
resOthers == <<rankVars, rrVars, ledgerVars, deductVars, genVars, delVars,
    envVars, mentionVars, fastVars>>
delOthers == <<rankVars, rrVars, ledgerVars, deductVars, genVars, resVars, envVars,
    mentionVars, fastVars>>
envOthers == <<rankVars, rrVars, ledgerVars, deductVars, genVars, resVars, delVars,
    mentionVars, fastVars>>
mentionOthers == <<rankVars, rrVars, ledgerVars, deductVars, genVars, resVars, delVars,
    envVars, fastVars>>
fastOthers == <<rankVars, rrVars, genVars, resVars, delVars, envVars, mentionVars>>

Min(a, b) == IF a <= b THEN a ELSE b
Max(a, b) == IF a >= b THEN a ELSE b

\* Python slice s[:n]
Take(s, n) == SubSeq(s, 1, Min(Max(n, 0), Len(s)))

\* Python slice s[a:b] with 0 <= a (0-based, end exclusive)
Slice(s, a, b) == SubSeq(s, a + 1, Min(b, Len(s)))

Range(s) == {s[i] : i \in 1..Len(s)}

(***************************************************************************)
(* Image rows.  A row carries its identity and its analysis_result; the    *)
(* analysis is a document whose fields may be empty.                       *)
(***************************************************************************)
EmptyAnalysis ==
    [tags |-> <<>>, key_elements |-> <<>>, theme |-> "", image_style |-> "",
     vibe |-> "", colors |-> "", lighting |-> "", description |-> ""]

TaggedAnalysis == [EmptyAnalysis EXCEPT !.tags = <<"red shoe">>, !.description = "a shoe"]

AnalysisValues == {EmptyAnalysis, TaggedAnalysis}

\* one optional part of the search text: present when the field is non-empty
TextPart(label, value, empty) == IF value = empty THEN <<>> ELSE << <<label, value>> >>

\* the search text as the sequence of its labelled parts; <<>> is the empty string
_build_image_search_text(analysis) ==
    IF analysis = EmptyAnalysis THEN <<>>
    ELSE TextPart("Tags", analysis.tags, <<>>)
         \o TextPart("Key elements", analysis.key_elements, <<>>)
         \o TextPart("Theme", analysis.theme, "")
         \o TextPart("Style", analysis.image_style, "")
         \o TextPart("Mood", analysis.vibe, "")
         \o TextPart("Colors", analysis.colors, "")
         \o TextPart("Lighting", analysis.lighting, "")
         \o TextPart("Description", analysis.description, "")

HasSearchText(img) == _build_image_search_text(img.analysis) # <<>>

\* the pools of n rows with ids 1..n in fetch order
Pools(n) == {p \in [1..n -> [id : 1..n, analysis : AnalysisValues]] :
                \A i \in 1..n : p[i].id = i}

(***************************************************************************)
(* _find_relevant_images_semantic                                          *)
(***************************************************************************)
\* similarity of an image text to the prompt, as a level
Similarities == 0..MaxSim

\* a sort that puts a later row before earlier rows of equal score
RECURSIVE InsertDescTiesFirst(_, _)
InsertDescTiesFirst(sorted, x) ==
    IF sorted = <<>> THEN <<x>>
    ELSE IF sorted[1][1] > x[1] THEN <<sorted[1]>> \o InsertDescTiesFirst(Tail(sorted), x)
    ELSE <<x>> \o sorted

\* list.sort(key=score, reverse=True): stable, descending
RECURSIVE InsertDesc(_, _)
InsertDesc(sorted, x) ==
    IF sorted = <<>> THEN <<x>>
    ELSE IF sorted[1][1] >= x[1] THEN <<sorted[1]>> \o InsertDesc(Tail(sorted), x)
    ELSE <<x>> \o sorted

RECURSIVE SortDesc(_)
SortDesc(s) ==
    IF s = <<>> THEN <<>>
    ELSE InsertDesc(SortDesc(SubSeq(s, 1, Len(s) - 1)), s[Len(s)])

\* zip(batch, embeddings) scored against the prompt embedding
ZipScores(batch, sims) ==
    [k \in 1..Min(Len(batch), Len(sims)) |-> <<sims[k], batch[k]>>]

\* number of embed_content calls a pool of n scorable images needs (prompt + batches)
EmbedCalls(n) == IF n = 0 THEN 0 ELSE 1 + (n + EMBED_BATCH_SIZE - 1) \div EMBED_BATCH_SIZE

\* the batch loop: embed.fail_call is the call that raises (0: none),
\* embed.sims the similarity the provider's vectors give each scorable text
RECURSIVE ScoreBatches(_, _, _, _)
ScoreBatches(scorable, embed, start, scored) ==
    IF start >= Len(scorable) THEN [raised |-> FALSE, scored |-> scored]
    ELSE LET batch == Slice(scorable, start, start + EMBED_BATCH_SIZE)
             call  == 2 + (start \div EMBED_BATCH_SIZE)
         IN  IF embed.fail_call = call
             THEN [raised |-> TRUE, scored |-> scored]
             ELSE ScoreBatches(scorable, embed, start + EMBED_BATCH_SIZE,
                               scored \o ZipScores(batch,
                                   Slice(embed.sims, start, start + EMBED_BATCH_SIZE)))

\* the ranking without its except branch: the embedding error escapes
SemanticNoExcept(images_data, max_images) ==
    [outcome |-> "raised", selected |-> <<>>, scored |-> <<>>]

\* the except branch: the first max_images rows in their original order
SemanticFallback(images_data, max_images) ==
    [outcome |-> "fell_back", selected |-> Take(images_data, max_images), scored |-> <<>>]

\* unanalyzed rows put in front of the ranked ones
FillFallbackFirst(selected_images, fallback_only, max_images) ==
    IF Len(selected_images) < max_images /\ fallback_only # <<>>
    THEN Take(fallback_only, max_images - Len(selected_images)) \o selected_images
    ELSE selected_images

\* unanalyzed rows appended while slots remain
FillWithFallback(selected_images, fallback_only, max_images) ==
    IF Len(selected_images) < max_images /\ fallback_only # <<>>
    THEN selected_images \o Take(fallback_only, max_images - Len(selected_images))
    ELSE selected_images

_find_relevant_images_semantic(embed, images_data, max_images) ==
    LET scorable      == SelectSeq(images_data, HasSearchText)
        fallback_only == SelectSeq(images_data, LAMBDA img : ~HasSearchText(img))
    IN  IF scorable = <<>>
        THEN [outcome |-> "unanalyzed", selected |-> Take(images_data, max_images),
              scored |-> <<>>]
        ELSE IF embed.fail_call = 1 THEN SemanticFallback(images_data, max_images)
        ELSE LET loop == ScoreBatches(scorable, embed, 0, <<>>)
             IN  IF loop.raised THEN SemanticFallback(images_data, max_images)
                 ELSE LET scored          == SortDesc(loop.scored)
                          selected_scored == Take(scored, max_images)
                          selected_images == [k \in 1..Len(selected_scored) |->
                                                 selected_scored[k][2]]
                      IN  [outcome |-> "ranked",
                           selected |-> FillWithFallback(selected_images, fallback_only,
                                                         max_images),
                           scored |-> scored]


NoEmbed == [fail_call |-> 0, sims |-> <<>>]

RankIdle ==
    /\ rank_images_data = <<>>
    /\ rank_max_images = 0
    /\ rank_embed = NoEmbed
    /\ rank_call = "idle"
    /\ rank_selected = <<>>
    /\ rank_scored = <<>>

RankInit ==
    /\ \E n \in 0..MaxPool : rank_images_data \in Pools(n)
    /\ rank_max_images \in 1..MaxPool
    /\ rank_embed = NoEmbed
    /\ rank_call = "called"
    /\ rank_selected = <<>>
    /\ rank_scored = <<>>

\* what the embedding provider may do over the calls of one ranking
EmbedOutcomes(images_data) ==
    LET n == Len(SelectSeq(images_data, HasSearchText))
    IN  [fail_call : 0..EmbedCalls(n), sims : [1..n -> Similarities]]

RankSemantic ==
    /\ rank_call = "called"
    /\ \E embed \in EmbedOutcomes(rank_images_data) :
          LET r == _find_relevant_images_semantic(embed, rank_images_data, rank_max_images)
          IN  /\ rank_embed' = embed
              /\ rank_selected' = r.selected
              /\ rank_scored' = r.scored
              /\ rank_call' = r.outcome
    /\ UNCHANGED <<rank_images_data, rank_max_images>>
    /\ UNCHANGED rankOthers

(***************************************************************************)
(* _deduct_credits and the ledger tables                                   *)
(***************************************************************************)
\* CREDIT_COSTS
GENERATE_IMAGE_COST == 5
ANALYZE_IMAGE_COST == 2
ANALYZE_DATASET_PER_IMAGE_COST == 1
\* largest credit_limit a balance row is created with
MaxCredits == 6
\* callers of _deduct_credits that may overlap
NumCallers == 2

Callers == 1..NumCallers

\* the actions that are metered, with the credits each may ask for
MeteredActions == {"generate_image", "analyze_image", "analyze_dataset"}

ActionCredits(action) ==
    CASE action = "generate_image" -> {GENERATE_IMAGE_COST}
      [] action = "analyze_image" -> {ANALYZE_IMAGE_COST}
      [] OTHER -> {n * ANALYZE_DATASET_PER_IMAGE_COST : n \in 1..GENERATE_IMAGE_COST}

\* the balance row _setup_new_account inserts
NewBalance(credit_limit) ==
    [total_credits |-> credit_limit, used_credits |-> 0, remaining_credits |-> credit_limit]

NoBalance == [total_credits |-> 0, used_credits |-> 0, remaining_credits |-> 0]

\* the tables after account setup: one balance row, or none when setup failed
LedgerInit ==
    /\ credit_balances \in {<<>>} \cup {<<NewBalance(c)>> : c \in 0..MaxCredits}
    /\ credit_transactions = <<>>
    /\ usage_logs = <<>>

LedgerIdle ==
    /\ credit_balances = <<>>
    /\ credit_transactions = <<>>
    /\ usage_logs = <<>>

DeductIdle ==
    /\ d_pc = [p \in Callers |-> "idle"]
    /\ d_credits = [p \in Callers |-> 0]
    /\ d_action = [p \in Callers |-> "none"]
    /\ d_balance = [p \in Callers |-> NoBalance]
    /\ d_result = [p \in Callers |-> "none"]

\* a check that lets a balance one credit short through
InsufficientOffByOne(remaining, credits) == remaining + 1 < credits

\* line 645
Insufficient(remaining, credits) == remaining < credits

\* an update that takes the credits twice
UpdatedBalanceTwice(balance, credits) ==
    [balance EXCEPT !.used_credits = balance.used_credits + credits + credits,
                    !.remaining_credits = balance.remaining_credits - credits - credits]

\* an update that lowers remaining_credits and leaves used_credits as it was
UpdatedRemainingOnly(balance, credits) ==
    [balance EXCEPT !.remaining_credits = balance.remaining_credits - credits]

\* lines 652-656: the row written from the snapshot read at line 638
UpdatedBalance(balance, credits) ==
    [balance EXCEPT !.used_credits = balance.used_credits + credits,
                    !.remaining_credits = balance.remaining_credits - credits]

\* a metered endpoint calls _deduct_credits(user, action_type, credits)
DeductCall(p, action, credits) ==
    /\ d_pc[p] = "idle"
    /\ d_result[p] = "none"
    /\ d_pc' = [d_pc EXCEPT ![p] = "read"]
    /\ d_credits' = [d_credits EXCEPT ![p] = credits]
    /\ d_action' = [d_action EXCEPT ![p] = action]
    /\ UNCHANGED <<d_balance, d_result, ledgerVars>>

DeductEnds(p, result) ==
    /\ d_pc' = [d_pc EXCEPT ![p] = "done"]
    /\ d_result' = [d_result EXCEPT ![p] = result]

\* lines 638-649: read the balance row and compare it with the cost
DeductRead(p) ==
    /\ d_pc[p] = "read"
    /\ \E store_ok \in BOOLEAN :
          IF ~store_ok
          THEN DeductEnds(p, "swallowed_error") /\ UNCHANGED d_balance
          ELSE IF credit_balances = <<>>
          THEN DeductEnds(p, "no_balance_row") /\ UNCHANGED d_balance
          ELSE IF Insufficient(credit_balances[1].remaining_credits, d_credits[p])
          THEN /\ DeductEnds(p, "raised_402")
               /\ d_balance' = [d_balance EXCEPT ![p] = credit_balances[1]]
          ELSE /\ d_pc' = [d_pc EXCEPT ![p] = "update"]
               /\ d_balance' = [d_balance EXCEPT ![p] = credit_balances[1]]
               /\ UNCHANGED d_result
    /\ UNCHANGED <<d_credits, d_action, ledgerVars>>

\* an update that decrements the row as it is stored at the time of the write
WrittenFromStoredRow(snapshot, stored, credits) == UpdatedBalance(stored, credits)

\* lines 652-656: the values written are computed from `balance`, the row read
\* at line 638, whatever the table holds by now
WrittenBalance(snapshot, stored, credits) == UpdatedBalance(snapshot, credits)

\* lines 652-656
DeductUpdate(p) ==
    /\ d_pc[p] = "update"
    /\ \E store_ok \in BOOLEAN :
          IF ~store_ok
          THEN DeductEnds(p, "swallowed_error") /\ UNCHANGED credit_balances
          ELSE /\ credit_balances' =
                     [k \in 1..Len(credit_balances) |->
                         WrittenBalance(d_balance[p], credit_balances[k], d_credits[p])]
               /\ d_pc' = [d_pc EXCEPT ![p] = "log_transaction"]
               /\ UNCHANGED d_result
    /\ UNCHANGED <<d_credits, d_action, d_balance, credit_transactions, usage_logs>>

\* lines 659-665
DeductLogTransaction(p) ==
    /\ d_pc[p] = "log_transaction"
    /\ \E store_ok \in BOOLEAN :
          IF ~store_ok
          THEN DeductEnds(p, "swallowed_error") /\ UNCHANGED credit_transactions
          ELSE /\ credit_transactions' = Append(credit_transactions,
                     [amount |-> 0 - d_credits[p],
                      type |-> IF d_action[p] = "generate_image"
                               THEN "generation" ELSE "analysis"])
               /\ d_pc' = [d_pc EXCEPT ![p] = "log_usage"]
               /\ UNCHANGED d_result
    /\ UNCHANGED <<d_credits, d_action, d_balance, credit_balances, usage_logs>>

\* lines 668-674
DeductLogUsage(p) ==
    /\ d_pc[p] = "log_usage"
    /\ \E store_ok \in BOOLEAN :
          IF ~store_ok
          THEN DeductEnds(p, "swallowed_error") /\ UNCHANGED usage_logs
          ELSE /\ usage_logs' = Append(usage_logs,
                     [action_type |-> d_action[p], credits_used |-> d_credits[p]])
               /\ DeductEnds(p, "returned")
    /\ UNCHANGED <<d_credits, d_action, d_balance, credit_balances, credit_transactions>>

DeductStep(p) ==
    DeductRead(p) \/ DeductUpdate(p) \/ DeductLogTransaction(p) \/ DeductLogUsage(p)

(***************************************************************************)
(* _resolve_referenced_dataset_ids and the explicit identifiers            *)
(***************************************************************************)
\* datasets 1..MaxDatasets belong to the user; MaxDatasets + 1 is an identifier
\* of a dataset that is not the user's
MaxDatasets == 2
\* most @env/folder mentions and most @folder mentions of a prompt
MaxPathMentions == 1
MaxPlainMentions == 2

\* None, or the empty string
NoDataset == 0

UserDatasets == 1..MaxDatasets

ExplicitIds == 0..(MaxDatasets + 1)

\* the sequences over S at most n long
SeqsUpTo(S, n) == UNION {[1..k -> S] : k \in 0..n}

\* an append that does not look for the identifier in the list
AppendAll(resolved, ids) == resolved \o SelectSeq(ids, LAMBDA d : d # NoDataset)

\* ids appended to resolved, each unless it is empty or already there
AppendNew(resolved, ids) ==
    LET Add[k \in 0..Len(ids)] ==
            IF k = 0 THEN resolved
            ELSE IF ids[k] # NoDataset /\ ids[k] \notin Range(Add[k - 1])
                 THEN Append(Add[k - 1], ids[k])
                 ELSE Add[k - 1]
    IN  Add[Len(ids)]

\* generate_image, lines 700-704
ExplicitDatasetIds(folder_id, dataset_id) ==
    LET first == IF folder_id # NoDataset THEN <<folder_id>> ELSE <<>>
    IN  IF dataset_id # NoDataset /\ dataset_id \notin Range(first)
        THEN Append(first, dataset_id) ELSE first

\* a request: its explicit identifiers, whether it has a prompt, and for each
\* mention of the prompt, in the order of _extract_prompt_dataset_mentions, the
\* dataset _match_dataset_by_name finds for it among the user's (or none)
Requests ==
    [folder_id : ExplicitIds, dataset_id : ExplicitIds, prompt : {FALSE},
     path_matched : {<<>>}, plain_matched : {<<>>}]
    \cup [folder_id : ExplicitIds, dataset_id : ExplicitIds, prompt : {TRUE},
          path_matched : SeqsUpTo(UserDatasets \cup {NoDataset}, MaxPathMentions),
          plain_matched : SeqsUpTo(UserDatasets \cup {NoDataset}, MaxPlainMentions)]

\* what the two table reads may do: the first or the second raises, the user
\* has no dataset, or both return rows
Lookups == {"datasets_failed", "environments_failed", "no_datasets", "found"}

NoRequest ==
    [folder_id |-> NoDataset, dataset_id |-> NoDataset, prompt |-> FALSE,
     path_matched |-> <<>>, plain_matched |-> <<>>]

ResolveIdle ==
    /\ res_request = NoRequest
    /\ res_lookup = "none"
    /\ res_call = "idle"
    /\ resolved_ids = <<>>

ResolveInit ==
    /\ res_request \in Requests
    /\ res_lookup = "none"
    /\ res_call = "called"
    /\ resolved_ids = <<>>

\* lines 232-238: the explicit identifiers, then the return without a prompt
ResolveExplicit ==
    /\ res_call = "called"
    /\ resolved_ids' = AppendNew(<<>>, ExplicitDatasetIds(res_request.folder_id,
                                                         res_request.dataset_id))
    /\ res_call' = IF res_request.prompt THEN "lookup" ELSE "returned"
    /\ UNCHANGED <<res_request, res_lookup>>
    /\ UNCHANGED resOthers

\* a resolution that goes on to the mentions whatever the reads did
AfterLookupGoesOn(got) == "matching"

\* lines 250-252 and 294-296: only rows of both tables lead to the mentions
AfterLookup(got) == IF got = "found" THEN "matching" ELSE "returned"

\* lines 240-252 and 294-296: the reads of datasets and environments
ResolveLookup ==
    /\ res_call = "lookup"
    /\ \E got \in Lookups :
          /\ res_lookup' = got
          /\ res_call' = AfterLookup(got)
    /\ UNCHANGED <<res_request, resolved_ids>>
    /\ UNCHANGED resOthers

\* lines 263-292: the path mentions, then the plain ones
ResolveMentions ==
    /\ res_call = "matching"
    /\ resolved_ids' = AppendNew(AppendNew(resolved_ids, res_request.path_matched),
                                 res_request.plain_matched)
    /\ res_call' = "returned"
    /\ UNCHANGED <<res_request, res_lookup>>
    /\ UNCHANGED resOthers

ResolveNext == ResolveExplicit \/ ResolveLookup \/ ResolveMentions

(***************************************************************************)
(* delete_folder (app/routers/environments.py)                             *)
(***************************************************************************)
\* folders 1..MaxFolders and image rows 1..MaxFolderImages; the blob of image
\* row i is the object i of the dataset-images bucket
MaxFolders == 2
MaxFolderImages == 2

Folders == 1..MaxFolders

\* the caller, and another user
Owners == {"current_user", "other_user"}

\* the folder rows a table may hold: each folder absent or owned by a user
FolderTables ==
    {t \in SUBSET [id : Folders, user_id : Owners] :
        \A a, b \in t : a.id = b.id => a = b}

\* the image rows of a folder table: each image absent or in one of its folders
ImageTables(table) ==
    {t \in SUBSET [image_url : 1..MaxFolderImages, dataset_id : {f.id : f \in table}] :
        \A a, b \in t : a.image_url = b.image_url => a = b}

NoDelete == [pc |-> "idle", folder_id |-> 0, paths |-> {}, referenced |-> {},
             result |-> 0]

DeleteIdle ==
    /\ datasets = {}
    /\ dataset_images = {}
    /\ dataset_blobs = {}
    /\ del_call = NoDelete

\* every image row was stored with its blob
DeleteInit ==
    /\ datasets \in FolderTables
    /\ dataset_images \in ImageTables(datasets)
    /\ dataset_blobs = {img.image_url : img \in dataset_images}
    /\ del_call = NoDelete

FolderImages(folder_id) == {img \in dataset_images : img.dataset_id = folder_id}

\* the request ends with an HTTP status
DeleteEnds(status) == del_call' = [del_call EXCEPT !.pc = "done", !.result = status]

\* DELETE /folders/{folder_id}; referenced: the blobs the folder's rows name
\* when the call starts
DeleteCall ==
    /\ del_call.pc = "idle"
    /\ \E folder_id \in Folders :
          del_call' = [del_call EXCEPT !.pc = "verify", !.folder_id = folder_id,
                          !.referenced = {img.image_url : img \in FolderImages(folder_id)}]
    /\ UNCHANGED <<datasets, dataset_images, dataset_blobs>>
    /\ UNCHANGED delOthers

\* lines 305-312: the ownership check
DeleteVerify ==
    /\ del_call.pc = "verify"
    /\ \E store_ok \in BOOLEAN :
          IF ~store_ok THEN DeleteEnds(400)
          ELSE IF ~\E f \in datasets :
                      f.id = del_call.folder_id /\ f.user_id = "current_user"
          THEN DeleteEnds(404)
          ELSE del_call' = [del_call EXCEPT !.pc = "list"]
    /\ UNCHANGED <<datasets, dataset_images, dataset_blobs>>
    /\ UNCHANGED delOthers

\* lines 314-332: after the read of the image rows; a read that raises is only
\* logged
DeleteAfterList(store_ok, paths) ==
    IF store_ok /\ paths # {} THEN "remove" ELSE "delete_row"

\* lines 315-328: the storage paths of the folder's image rows
DeleteList ==
    /\ del_call.pc = "list"
    /\ \E store_ok \in BOOLEAN :
          LET paths == IF store_ok
                       THEN {img.image_url : img \in FolderImages(del_call.folder_id)}
                       ELSE {}
          IN  del_call' = [del_call EXCEPT !.pc = DeleteAfterList(store_ok, paths),
                                           !.paths = paths]
    /\ UNCHANGED <<datasets, dataset_images, dataset_blobs>>
    /\ UNCHANGED delOthers

\* lines 329-332: the blobs are removed; a removal that raises is only logged
DeleteRemove ==
    /\ del_call.pc = "remove"
    /\ \E store_ok \in BOOLEAN :
          dataset_blobs' = IF store_ok THEN dataset_blobs \ del_call.paths
                           ELSE dataset_blobs
    /\ del_call' = [del_call EXCEPT !.pc = "delete_row"]
    /\ UNCHANGED <<datasets, dataset_images>>
    /\ UNCHANGED delOthers

\* lines 334-340: the folder row is deleted, and with it (cascade) its image
\* rows
DeleteRow ==
    /\ del_call.pc = "delete_row"
    /\ \E store_ok \in BOOLEAN :
          IF store_ok
          THEN /\ datasets' = {f \in datasets : f.id # del_call.folder_id}
               /\ dataset_images' = dataset_images \ FolderImages(del_call.folder_id)
               /\ DeleteEnds(200)
          ELSE /\ UNCHANGED <<datasets, dataset_images>>
               /\ DeleteEnds(400)
    /\ UNCHANGED dataset_blobs
    /\ UNCHANGED delOthers

DeleteNext == DeleteCall \/ DeleteVerify \/ DeleteList \/ DeleteRemove \/ DeleteRow

(***************************************************************************)
(* create_environment and update_environment (app/routers/environments.py) *)
(***************************************************************************)
\* requests of the user that may be in progress together
MaxEnvCallers == 2
\* most environment rows the user's table comes to hold
MaxEnvironments == 3

EnvCallers == 1..MaxEnvCallers

\* a name: its letters, and whether it is written in capitals and with
\* surrounding or doubled spaces; the empty name has no letters
EnvLetters == {"studio", "beach"}

EnvNames ==
    [letters : EnvLetters \cup {""}, capitals : BOOLEAN, spaces : BOOLEAN]

\* " ".join((name or "").strip().split())
_normalize_entity_name(name) ==
    IF name.letters = "" THEN [letters |-> "", capitals |-> FALSE, spaces |-> FALSE]
    ELSE [name EXCEPT !.spaces = FALSE]

\* str.lower()
Lower(name) == [name EXCEPT !.capitals = FALSE]

NoEnvCall == [pc |-> "idle", op |-> "none", environment_id |-> 0,
              clean_name |-> [letters |-> "", capitals |-> FALSE, spaces |-> FALSE],
              result |-> 0]

EnvIdle ==
    /\ environments = <<>>
    /\ env_call = [p \in EnvCallers |-> NoEnvCall]

\* the user has no environment yet, or one, created through create_environment
EnvInit ==
    /\ environments \in
          {<<>>} \cup {<<[id |-> 1, name |-> _normalize_entity_name(n)]>> :
                          n \in {m \in EnvNames : m.letters # ""}}
    /\ env_call = [p \in EnvCallers |-> NoEnvCall]

EnvEnds(p, status) ==
    env_call' = [env_call EXCEPT ![p].pc = "done", ![p].result = status]

\* lines 90-92 and 118-120: the request arrives; an empty name is refused
EnvCall(p) ==
    /\ env_call[p].pc = "idle"
    /\ \E op \in {"create", "update"} : \E name \in EnvNames :
       \E environment_id \in 1..MaxEnvironments :
          /\ op = "create" => environment_id = 1
          /\ LET clean_name == _normalize_entity_name(name)
             IN  env_call' = [env_call EXCEPT ![p] =
                     [pc |-> IF clean_name.letters = "" THEN "done" ELSE "check",
                      op |-> op,
                      environment_id |-> IF op = "update" THEN environment_id ELSE 0,
                      clean_name |-> clean_name,
                      result |-> IF clean_name.letters = "" THEN 400 ELSE 0]]
    /\ UNCHANGED environments
    /\ UNCHANGED envOthers

\* _assert_unique_environment_name, lines 23-36, on the rows it read
NameTaken(rows, name, exclude_id) ==
    \E k \in 1..Len(rows) :
        /\ ~(exclude_id # 0 /\ rows[k].id = exclude_id)
        /\ Lower(_normalize_entity_name(rows[k].name)) = Lower(_normalize_entity_name(name))

\* lines 94 and 122-127: the uniqueness check reads the user's rows
EnvCheck(p) ==
    /\ env_call[p].pc = "check"
    /\ \E store_ok \in BOOLEAN :
          IF ~store_ok THEN EnvEnds(p, 400)
          ELSE IF NameTaken(environments, env_call[p].clean_name,
                            env_call[p].environment_id)
          THEN EnvEnds(p, 409)
          ELSE env_call' = [env_call EXCEPT ![p].pc = "write"]
    /\ UNCHANGED environments
    /\ UNCHANGED envOthers

\* lines 96-102 and 129-136: the insert, or the update of the row
EnvWrite(p) ==
    /\ env_call[p].pc = "write"
    /\ \E store_ok \in BOOLEAN :
          IF ~store_ok THEN EnvEnds(p, 400) /\ UNCHANGED environments
          ELSE IF env_call[p].op = "create"
          THEN /\ Len(environments) < MaxEnvironments
               /\ environments' = Append(environments,
                      [id |-> Len(environments) + 1, name |-> env_call[p].clean_name])
               /\ EnvEnds(p, 201)
          ELSE IF \E k \in 1..Len(environments) :
                      environments[k].id = env_call[p].environment_id
          THEN /\ environments' =
                      [k \in 1..Len(environments) |->
                          IF environments[k].id = env_call[p].environment_id
                          THEN [environments[k] EXCEPT !.name = env_call[p].clean_name]
                          ELSE environments[k]]
               /\ EnvEnds(p, 200)
          ELSE EnvEnds(p, 404) /\ UNCHANGED environments
    /\ UNCHANGED envOthers

EnvNext == \E p \in EnvCallers : EnvCall(p) \/ EnvCheck(p) \/ EnvWrite(p)

(***************************************************************************)
(* The mention helpers: _normalize_lookup_text, _trim_mention_phrase,      *)
(* _extract_prompt_dataset_mentions, _fuzzy_match_key and                  *)
(* _match_dataset_by_name.  A text is a sequence of characters.            *)
(***************************************************************************)
\* longest folder name and longest mention handed to _match_dataset_by_name
MaxNameLen == 3
\* most folders in the list handed to _match_dataset_by_name
MaxMatchFolders == 2
\* longest prompt handed to _extract_prompt_dataset_mentions
MaxPromptLen == 5
\* longest environment and folder name, and most environments and folders,
\* of the path-mention step
MaxPathNameLen == 2
MaxPathEnvironments == 2
MaxPathFolders == 2

\* MENTION_FUZZY_CUTOFF (0.72), in hundredths
MENTION_FUZZY_CUTOFF == 72

\* the letters of the names, of the prompts, and every character [A-Za-z0-9]
\* of the model
NameLetters == {"a", "B"}
PromptLetters == {"n", "a", "o"}
Alnum == {"a", "b", "B", "n", "o"}
\* the character class [A-Za-z0-9 _-]
MentionClass == Alnum \cup {" "}
\* \s
Whitespace == {" "}

\* the code point of a character, the order Python compares strings by
CodePoint(c) ==
    CASE c = " " -> 32 [] c = "/" -> 47 [] c = "@" -> 64 [] c = "B" -> 66
      [] c = "a" -> 97 [] c = "b" -> 98 [] c = "n" -> 110 [] OTHER -> 111

\* str.lower on one character
LowerChar(c) == IF c = "B" THEN "b" ELSE c

LowerText(text) == [k \in 1..Len(text) |-> LowerChar(text[k])]

\* the texts over chars at most n long
Texts(chars, n) == UNION {[1..k -> chars] : k \in 0..n}

\* the index after the longest run of characters of class C that starts at i
RECURSIVE RunEnd(_, _, _)
RunEnd(text, i, C) ==
    IF i <= Len(text) /\ text[i] \in C THEN RunEnd(text, i + 1, C) ELSE i

\* str.split(): the words between runs of whitespace
RECURSIVE SplitWords(_)
SplitWords(text) ==
    IF text = <<>> THEN <<>>
    ELSE IF text[1] \in Whitespace THEN SplitWords(Tail(text))
    ELSE LET e == RunEnd(text, 1, Alnum \cup {"@", "/"})
         IN  <<SubSeq(text, 1, e - 1)>> \o SplitWords(SubSeq(text, e, Len(text)))

\* " ".join(words)
RECURSIVE JoinWords(_)
JoinWords(words) ==
    IF words = <<>> THEN <<>>
    ELSE IF Len(words) = 1 THEN words[1]
    ELSE words[1] \o <<" ">> \o JoinWords(Tail(words))

\* lines 95-99
_normalize_lookup_text(value) == JoinWords(SplitWords(LowerText(value)))

\* the names create_folder and create_environment store: not empty, trimmed,
\* one space between words (environments.py, _normalize_entity_name)
CleanNames(n) ==
    {t \in Texts(NameLetters \cup {" "}, n) : t # <<>> /\ t = JoinWords(SplitWords(t))}

\* the stop words of _trim_mention_phrase and the mentions skipped by
\* _extract_prompt_dataset_mentions that can be written with the letters of
\* the model
StopWords == {<<"o", "n">>}
SkippedMentions == {<<"n", " ", "a">>, <<"n", "a">>}

\* lines 119-127: the tokens kept, up to the first stop word, at most 6
RECURSIVE KeptTokens(_, _)
KeptTokens(tokens, kept) ==
    IF tokens = <<>> THEN kept
    ELSE IF LowerText(tokens[1]) \in StopWords THEN kept
    ELSE IF Len(kept) + 1 >= 6 THEN Append(kept, tokens[1])
    ELSE KeptTokens(Tail(tokens), Append(kept, tokens[1]))

\* lines 102-128; the groups matched hold no "/" and no ":"
_trim_mention_phrase(raw) ==
    IF raw = <<>> THEN <<>> ELSE JoinWords(KeptTokens(SplitWords(raw), <<>>))

NoMatch == [start |-> 0, env |-> <<>>, group |-> <<>>, end |-> 0]

\* the lengths the group ([A-Za-z0-9][A-Za-z0-9 _-]{0,most}) may take at s
GroupLengths(text, s, most) ==
    IF s <= Len(text) /\ text[s] \in Alnum
    THEN 1..Min(1 + most, RunEnd(text, s + 1, MentionClass) - s)
    ELSE {}

SetMax(S) == CHOOSE n \in S : \A m \in S : m <= n

\* path_pattern (lines 145-147) tried at the "@" of position i: each group
\* takes the most characters that let the rest of the pattern match
PathMatchAt(text, i) ==
    LET s == RunEnd(text, i + 1, Whitespace)
        Slash(n) == RunEnd(text, s + n, Whitespace)
        Folder(n) == RunEnd(text, Slash(n) + 1, Whitespace)
        ok == {n \in GroupLengths(text, s, 64) :
                  /\ Slash(n) <= Len(text)
                  /\ text[Slash(n)] = "/"
                  /\ GroupLengths(text, Folder(n), 96) # {}}
    IN  IF text[i] # "@" \/ ok = {} THEN NoMatch
        ELSE LET n == SetMax(ok)
                 u == Folder(n)
                 m == SetMax(GroupLengths(text, u, 96))
             IN  [start |-> i, env |-> SubSeq(text, s, s + n - 1),
                  group |-> SubSeq(text, u, u + m - 1), end |-> u + m]

\* (?!\s*/) at position t
SlashAhead(text, t) ==
    LET v == RunEnd(text, t, Whitespace) IN v <= Len(text) /\ text[v] = "/"

\* plain_pattern (line 155) tried at the "@" of position i: the group takes the
\* most characters after which the lookahead holds
PlainMatchAt(text, i) ==
    LET s == RunEnd(text, i + 1, Whitespace)
        ok == {n \in GroupLengths(text, s, 96) : ~SlashAhead(text, s + n)}
    IN  IF text[i] # "@" \/ ok = {} THEN NoMatch
        ELSE LET n == SetMax(ok)
             IN  [start |-> i, env |-> <<>>,
                  group |-> SubSeq(text, s, s + n - 1), end |-> s + n]

\* path_pattern.finditer(prompt) from position p
RECURSIVE PathMatches(_, _)
PathMatches(text, p) ==
    IF p > Len(text) THEN <<>>
    ELSE LET m == PathMatchAt(text, p)
         IN  IF m = NoMatch THEN PathMatches(text, p + 1)
             ELSE <<m>> \o PathMatches(text, m.end)

\* plain_pattern.finditer(prompt) from position p
RECURSIVE PlainMatches(_, _)
PlainMatches(text, p) ==
    IF p > Len(text) THEN <<>>
    ELSE LET m == PlainMatchAt(text, p)
         IN  IF m = NoMatch THEN PlainMatches(text, p + 1)
             ELSE <<m>> \o PlainMatches(text, m.end)

\* lines 148-152
PathMention(m) == <<_trim_mention_phrase(m.env), _trim_mention_phrase(m.group)>>

PathKey(pair) == <<_normalize_lookup_text(pair[1]), _normalize_lookup_text(pair[2])>>

\* lines 166-180: the first item of each key, in order; keys[k] is the key of
\* items[k]
RECURSIVE Dedup(_, _, _)
Dedup(items, keys, seen) ==
    IF items = <<>> THEN <<>>
    ELSE IF keys[1] \in seen THEN Dedup(Tail(items), Tail(keys), seen)
    ELSE <<items[1]>> \o Dedup(Tail(items), Tail(keys), seen \cup {keys[1]})

\* lines 131-182
_extract_prompt_dataset_mentions(prompt) ==
    LET found_path == PathMatches(prompt, 1)
        path_mentions ==
            SelectSeq([k \in 1..Len(found_path) |-> PathMention(found_path[k])],
                      LAMBDA pair : pair[1] # <<>> /\ pair[2] # <<>>)
        found_plain == PlainMatches(prompt, 1)
        plain_mentions ==
            SelectSeq([k \in 1..Len(found_plain) |->
                          _trim_mention_phrase(found_plain[k].group)],
                      LAMBDA mention :
                          /\ mention # <<>>
                          /\ _normalize_lookup_text(mention) \notin SkippedMentions)
    IN  [path |-> Dedup(path_mentions,
                        [k \in 1..Len(path_mentions) |-> PathKey(path_mentions[k])], {}),
         plain |-> Dedup(plain_mentions,
                         [k \in 1..Len(plain_mentions) |->
                             _normalize_lookup_text(plain_mentions[k])], {})]

\* query in text: text holds query as a substring
Contains(query, text) ==
    \E i \in 0..(Len(text) - Len(query)) : SubSeq(text, i + 1, i + Len(query)) = query

\* x < y as Python compares strings
RECURSIVE TextLess(_, _)
TextLess(x, y) ==
    IF y = <<>> THEN FALSE
    ELSE IF x = <<>> THEN TRUE
    ELSE IF x[1] # y[1] THEN CodePoint(x[1]) < CodePoint(y[1])
    ELSE TextLess(Tail(x), Tail(y))

\* SequenceMatcher.find_longest_match(alo, ahi, blo, bhi) without junk: the
\* longest block a[i:i+k] = b[j:j+k], the earliest in a, then the earliest in b
FindLongestMatch(a, b, alo, ahi, blo, bhi) ==
    LET blocks == {m \in (alo..(ahi - 1)) \X (blo..(bhi - 1)) \X (1..Min(ahi - alo, bhi - blo)) :
                      /\ m[1] + m[3] <= ahi
                      /\ m[2] + m[3] <= bhi
                      /\ SubSeq(a, m[1] + 1, m[1] + m[3]) = SubSeq(b, m[2] + 1, m[2] + m[3])}
    IN  IF blocks = {} THEN <<alo, blo, 0>>
        ELSE CHOOSE m \in blocks : \A o \in blocks :
                \/ m[3] > o[3]
                \/ m[3] = o[3] /\ m[1] < o[1]
                \/ m[3] = o[3] /\ m[1] = o[1] /\ m[2] <= o[2]

\* the characters in SequenceMatcher.get_matching_blocks()
RECURSIVE MatchingChars(_, _, _, _, _, _)
MatchingChars(a, b, alo, ahi, blo, bhi) ==
    LET m == FindLongestMatch(a, b, alo, ahi, blo, bhi)
    IN  IF m[3] = 0 THEN 0
        ELSE m[3] + MatchingChars(a, b, alo, m[1], blo, m[2])
                  + MatchingChars(a, b, m[1] + m[3], ahi, m[2] + m[3], bhi)

\* SequenceMatcher(a = x, b = word).ratio() as the fraction <<2 * M, T>>
Ratio(x, word) == <<2 * MatchingChars(x, word, 0, Len(x), 0, Len(word)), Len(x) + Len(word)>>

\* ratio >= cutoff
CloseEnough(x, word) == Ratio(x, word)[1] * 100 >= MENTION_FUZZY_CUTOFF * Ratio(x, word)[2]

NoKey == <<>>

\* difflib.get_close_matches(word, keys, n=1, cutoff): the key of the highest
\* ratio, the greater key among equals
get_close_matches(word, keys) ==
    LET close == {k \in 1..Len(keys) : CloseEnough(keys[k], word)}
        Before(j, k) ==
            LET rj == Ratio(keys[j], word)
                rk == Ratio(keys[k], word)
            IN  \/ rj[1] * rk[2] < rk[1] * rj[2]
                \/ rj[1] * rk[2] = rk[1] * rj[2] /\ TextLess(keys[j], keys[k])
    IN  IF close = {} THEN NoKey
        ELSE keys[CHOOSE k \in close : \A j \in close : j = k \/ Before(j, k) \/ keys[j] = keys[k]]

\* lines 185-193
_fuzzy_match_key(query, keys) ==
    IF query = <<>> \/ keys = <<>> THEN NoKey
    ELSE LET query_norm == _normalize_lookup_text(query)
         IN  IF query_norm \in Range(keys) THEN query_norm
             ELSE get_close_matches(query_norm, keys)

\* the keys of by_norm in the order they were inserted (lines 202-207)
NormKeys(rows) ==
    LET names == [k \in 1..Len(rows) |-> _normalize_lookup_text(rows[k].name)]
        keys == SelectSeq(names, LAMBDA name : name # <<>>)
    IN  Dedup(keys, keys, {})

\* by_norm[key]
RowsOf(key, rows) == SelectSeq(rows, LAMBDA ds : _normalize_lookup_text(ds.name) = key)

\* a containment loop that keeps the last key that qualifies
ContainmentMatchLast(query_norm, keys) ==
    LET hits == {k \in 1..Len(keys) :
                    Contains(query_norm, keys[k]) \/ Contains(keys[k], query_norm)}
    IN  IF hits = {} THEN NoKey ELSE keys[SetMax(hits)]

\* lines 212-214: the first key that holds the query or is held by it
ContainmentMatch(query_norm, keys) ==
    LET hits == {k \in 1..Len(keys) :
                    Contains(query_norm, keys[k]) \/ Contains(keys[k], query_norm)}
    IN  IF hits = {} THEN NoKey ELSE keys[CHOOSE k \in hits : \A j \in hits : k <= j]

\* lines 196-219: no row <<>>, or the row <<ds>>
_match_dataset_by_name(query, rows) ==
    IF query = <<>> \/ rows = <<>> THEN <<>>
    ELSE LET query_norm == _normalize_lookup_text(query)
             keys == NormKeys(rows)
             contained == ContainmentMatch(query_norm, keys)
             best_key == _fuzzy_match_key(query_norm, keys)
         IN  IF query_norm \in Range(keys) THEN <<RowsOf(query_norm, rows)[1]>>
             ELSE IF contained # NoKey THEN <<RowsOf(contained, rows)[1]>>
             ELSE IF best_key # NoKey THEN <<RowsOf(best_key, rows)[1]>>
             ELSE <<>>

\* the folder lists at most n long with names of Names in environments of Envs;
\* the identifier of a row is its place in the table
FolderLists(n, Names, Envs) ==
    UNION {[1..k -> [name : Names, environment_id : Envs]] : k \in 0..n}

WithIds(rows) == [k \in 1..Len(rows) |->
                     [id |-> k, name |-> rows[k].name,
                      environment_id |-> rows[k].environment_id]]

NoEnvironment == 0

MentionIdle ==
    /\ mn_prompt = <<>>
    /\ mn_query = [env_name |-> <<>>, folder_name |-> <<>>]
    /\ mn_datasets = <<>>
    /\ mn_environments = <<>>
    /\ mn_call = "idle"
    /\ mn_result = <<>>

\* a call _match_dataset_by_name(query, datasets)
MatchInit ==
    /\ mn_prompt = <<>>
    /\ mn_query \in [env_name : {<<>>},
                     folder_name : CleanNames(MaxNameLen) \cup {<<>>}]
    /\ \E rows \in FolderLists(MaxMatchFolders, CleanNames(MaxNameLen), {NoEnvironment}) :
          mn_datasets = WithIds(rows)
    /\ mn_environments = <<>>
    /\ mn_call = "called"
    /\ mn_result = <<>>

MatchByName ==
    /\ mn_call = "called"
    /\ mn_result' = _match_dataset_by_name(mn_query.folder_name, mn_datasets)
    /\ mn_call' = "returned"
    /\ UNCHANGED <<mn_prompt, mn_query, mn_datasets, mn_environments>>
    /\ UNCHANGED mentionOthers

\* the environment rows at most n long with names of Names
EnvironmentLists(n, Names) == UNION {[1..k -> [name : Names]] : k \in 0..n}

\* lines 253-257: the normalized environment names in the order of the rows
EnvKeys(envs) ==
    LET names == [k \in 1..Len(envs) |-> _normalize_lookup_text(envs[k].name)]
        keys == SelectSeq(names, LAMBDA name : name # <<>>)
    IN  Dedup(keys, keys, {})

\* env_name_to_ids.get(env_key, []), line 268
EnvIdsOf(env_key, envs) ==
    IF env_key = NoKey THEN {}
    ELSE {envs[k].id : k \in {j \in 1..Len(envs) :
                                 _normalize_lookup_text(envs[j].name) = env_key}}

\* lines 270-274: the folders of the matched environments, or all of them
CandidateDatasets(env_ids, rows) ==
    LET candidate_datasets == SelectSeq(rows, LAMBDA ds : ds.environment_id \in env_ids)
    IN  IF candidate_datasets = <<>> THEN rows ELSE candidate_datasets

\* one pass of the path-mention loop of _resolve_referenced_dataset_ids on
\* the mention (env_name, folder_name), the user having folders
PathMentionInit ==
    /\ mn_prompt = <<>>
    /\ mn_query \in [env_name : CleanNames(MaxPathNameLen),
                     folder_name : CleanNames(MaxPathNameLen)]
    /\ \E envs \in EnvironmentLists(MaxPathEnvironments, CleanNames(MaxPathNameLen)) :
          /\ mn_environments = [k \in 1..Len(envs) |-> [id |-> k, name |-> envs[k].name]]
          /\ \E rows \in FolderLists(MaxPathFolders, CleanNames(MaxPathNameLen),
                                     {NoEnvironment} \cup (1..Len(envs))) :
                rows # <<>> /\ mn_datasets = WithIds(rows)
    /\ mn_call = "called"
    /\ mn_result = <<>>

\* lines 266-276
ResolvePathMention ==
    /\ mn_call = "called"
    /\ LET env_key == _fuzzy_match_key(_normalize_lookup_text(mn_query.env_name),
                                       EnvKeys(mn_environments))
           env_ids == EnvIdsOf(env_key, mn_environments)
       IN  mn_result' = _match_dataset_by_name(mn_query.folder_name,
                                               CandidateDatasets(env_ids, mn_datasets))
    /\ mn_call' = "returned"
    /\ UNCHANGED <<mn_prompt, mn_query, mn_datasets, mn_environments>>
    /\ UNCHANGED mentionOthers

\* a call _extract_prompt_dataset_mentions(prompt)
ExtractInit ==
    /\ mn_prompt \in Texts(PromptLetters \cup {"@", "/", " "}, MaxPromptLen)
    /\ mn_query = [env_name |-> <<>>, folder_name |-> <<>>]
    /\ mn_datasets = <<>>
    /\ mn_environments = <<>>
    /\ mn_call = "called"
    /\ mn_result = [path |-> <<>>, plain |-> <<>>]

ExtractMentions ==
    /\ mn_call = "called"
    /\ mn_result' = _extract_prompt_dataset_mentions(mn_prompt)
    /\ mn_call' = "returned"
    /\ UNCHANGED <<mn_prompt, mn_query, mn_datasets, mn_environments>>
    /\ UNCHANGED mentionOthers

(***************************************************************************)
(* generate_image and _generate_with_retry                                 *)
(***************************************************************************)
\* MAX_REFERENCE_IMAGES (14 in the program), scaled
MAX_REFERENCE_IMAGES == 4
GEMINI_MAX_RETRIES == 3
\* the "top 3" of the shrink retry
SHRINK_TO == 3

\* what one generate_content call may do: return a response with or without an
\* image part, raise ServerError (5xx), raise another APIError (400
\* INVALID_ARGUMENT, or another client error), or raise something that is no
\* APIError.  str(e) of an error that is no 400 may still contain "400"
\* (its details are the provider's message): the _400_text outcomes.
GenerationOutcomes ==
    {"image", "no_image", "server_error", "server_error_400_text",
     "invalid_argument", "client_error", "client_error_400_text", "exception"}

\* isinstance(e, ServerError)
IsServerError(o) == o \in {"server_error", "server_error_400_text"}

\* isinstance(e, APIError): ServerError is a subclass of APIError
IsAPIError(o) ==
    IsServerError(o) \/ o \in {"invalid_argument", "client_error", "client_error_400_text"}

\* "400" in err_str or "INVALID_ARGUMENT" in err_str
Mentions400(o) ==
    o \in {"invalid_argument", "server_error_400_text", "client_error_400_text"}

\* a retry loop that has no last attempt
RetriesForever(o, try) == IsServerError(o)

\* lines 610-615: _generate_with_retry sleeps and calls again
Retries(o, try) == IsServerError(o) /\ try < GEMINI_MAX_RETRIES

\* line 944: the except APIError branch shrinks instead of re-raising
Shrinks(att, sent, o) ==
    att = 0 /\ sent > SHRINK_TO /\ IsAPIError(o) /\ Mentions400(o)

\* a shrink that keeps the last three images
ShrinkKeepsLast(images) == SubSeq(images, Max(1, Len(images) - SHRINK_TO + 1), Len(images))

\* line 946
Shrink(images) == Take(images, SHRINK_TO)

NoBlob == 0
NoId == 0

HttpError(code, what) ==
    [status |-> code, detail |-> what, image_url |-> NoBlob, id |-> NoId,
     prompt_used |-> "", reference_images_count |-> 0, credits_used |-> 0]

\* handlers without the last one, except Exception
ErrorResponseNoCatchAll(o) ==
    IF IsServerError(o) THEN HttpError(503, "temporarily_unavailable")
    ELSE IF IsAPIError(o)
    THEN IF Mentions400(o) THEN HttpError(502, "request_rejected")
         ELSE HttpError(502, "ai_service_error")
    ELSE HttpError(0, "none")

\* lines 1046-1075: the HTTP error an exception of the request ends as
ErrorResponse(o) ==
    IF IsServerError(o) THEN HttpError(503, "temporarily_unavailable")
    ELSE IF IsAPIError(o)
    THEN IF Mentions400(o) THEN HttpError(502, "request_rejected")
         ELSE HttpError(502, "ai_service_error")
    ELSE HttpError(500, "generation_failed")

\* lines 831-854
BuildPrompt(images) == IF images # <<>> THEN "reference_prompt" ELSE "text_prompt"

TextPartOf(prompt) == [kind |-> "text", ref |-> 0, text |-> prompt]

\* the staged parts when the File API upload of image number fail_at raises
\* (0: none does)
StagedParts(prompt, images, fail_at) ==
    <<TextPartOf(prompt)>> \o
    [k \in 1..(IF fail_at = 0 THEN Len(images) ELSE fail_at - 1) |->
        [kind |-> "file_uri", ref |-> images[k], text |-> ""]]

\* lines 915-923: the inline parts appended to the parts list started anew
InlineParts(prompt, images) ==
    <<TextPartOf(prompt)>> \o
    [k \in 1..Len(images) |-> [kind |-> "inline_bytes", ref |-> images[k], text |-> ""]]

\* a fallback that keeps the parts staged before the failure
AssemblePartsNoReset(prompt, images, fail_at) ==
    IF images = <<>> \/ fail_at = 0 THEN StagedParts(prompt, images, fail_at)
    ELSE StagedParts(prompt, images, fail_at) \o Tail(InlineParts(prompt, images))

\* lines 887-923: the parts of one assembled attempt
AssembleParts(prompt, images, fail_at) ==
    IF images = <<>> THEN <<TextPartOf(prompt)>>
    ELSE IF fail_at = 0 THEN StagedParts(prompt, images, fail_at)
    ELSE InlineParts(prompt, images)

GenIdle ==
    /\ g_pc = "idle"
    /\ GOOGLE_API_KEY = FALSE
    /\ current_user = FALSE
    /\ ranked_images = <<>>
    /\ reference_images = <<>>
    /\ full_prompt = ""
    /\ images_to_send = <<>>
    /\ attempt = 0
    /\ parts = <<>>
    /\ gen_try = 0
    /\ provider_log = <<>>
    /\ response = "none"
    /\ download_failed = {}
    /\ storage_objects = {}
    /\ generated_images = <<>>
    /\ generation_id = NoId
    /\ g_result = HttpError(0, "none")

\* the deployment is configured with a provider key or not; no request yet
GenInit ==
    /\ g_pc = "idle"
    /\ GOOGLE_API_KEY \in BOOLEAN
    /\ current_user = FALSE
    /\ ranked_images = <<>>
    /\ reference_images = <<>>
    /\ full_prompt = ""
    /\ images_to_send = <<>>
    /\ attempt = 0
    /\ parts = <<>>
    /\ gen_try = 0
    /\ provider_log = <<>>
    /\ response = "none"
    /\ download_failed = {}
    /\ storage_objects = {}
    /\ generated_images = <<>>
    /\ generation_id = NoId
    /\ g_result = HttpError(0, "none")

\* the request ends with an HTTPException
GenFails(err) ==
    /\ g_pc' = "failed"
    /\ g_result' = err

\* the caller of _deduct_credits that is the generate_image request
GenCaller == 1

\* lines 682-696: a request arrives, with or without an authenticated user
GenRequest ==
    /\ g_pc = "idle"
    /\ \E authenticated \in BOOLEAN : current_user' = authenticated
    /\ IF ~GOOGLE_API_KEY
       THEN GenFails(HttpError(500, "not_configured"))
       ELSE g_pc' = "resolving" /\ UNCHANGED g_result
    /\ UNCHANGED <<GOOGLE_API_KEY, genLocals, genStores, ledgerVars, deductVars>>
    /\ UNCHANGED genOthers

\* the text-only request that is assembled when there are no reference images
GenNoReferences ==
    /\ reference_images' = <<>>
    /\ full_prompt' = BuildPrompt(<<>>)
    /\ images_to_send' = <<>>
    /\ attempt' = 0
    /\ g_pc' = "assembling"

\* lines 701-724: the referenced datasets are resolved; some or none
GenResolve ==
    /\ g_pc = "resolving"
    /\ \E resolved \in BOOLEAN :
          IF resolved
          THEN /\ g_pc' = "ranking"
               /\ UNCHANGED <<reference_images, full_prompt, images_to_send, attempt>>
          ELSE GenNoReferences
    /\ UNCHANGED <<GOOGLE_API_KEY, current_user, download_failed,
                   ranked_images, parts, gen_try,
                   provider_log, response, genStores, g_result, ledgerVars, deductVars>>
    /\ UNCHANGED genOthers

\* lines 725-803: the image rows are fetched and ranked; rows are named by the
\* rank _rerank_images_with_vision gave them (at most MAX_REFERENCE_IMAGES).
\* A store error while fetching leaves the request without references.
GenRank ==
    /\ g_pc = "ranking"
    /\ \E fetch_ok \in BOOLEAN : \E k \in 0..MAX_REFERENCE_IMAGES :
          IF fetch_ok /\ k > 0
          THEN /\ ranked_images' = [i \in 1..k |-> i]
               /\ g_pc' = "downloading"
               /\ UNCHANGED <<reference_images, full_prompt, images_to_send, attempt>>
          ELSE /\ UNCHANGED ranked_images
               /\ GenNoReferences
    /\ UNCHANGED <<GOOGLE_API_KEY, current_user, download_failed,
                   parts, gen_try,
                   provider_log, response, genStores, g_result, ledgerVars, deductVars>>
    /\ UNCHANGED genOthers

\* a download loop that gives up at the first image that fails
DownloadedUntilFailure(ranked, ok) ==
    LET bad == {k \in 1..Len(ranked) : ranked[k] \notin ok}
    IN  IF bad = {} THEN ranked
        ELSE SubSeq(ranked, 1, (CHOOSE k \in bad : \A j \in bad : k <= j) - 1)

\* lines 805-821: each ranked image is downloaded; one that fails is skipped
DownloadedImages(ranked, ok) == SelectSeq(ranked, LAMBDA img : img \in ok)

GenDownload ==
    /\ g_pc = "downloading"
    /\ \E ok \in SUBSET Range(ranked_images) :
          /\ reference_images' = DownloadedImages(ranked_images, ok)
          /\ download_failed' = Range(ranked_images) \ ok
          /\ full_prompt' = BuildPrompt(reference_images')
          /\ images_to_send' = reference_images'
    /\ attempt' = 0
    /\ g_pc' = "assembling"
    /\ UNCHANGED <<GOOGLE_API_KEY, current_user, ranked_images, parts, gen_try,
                   provider_log, response, genStores, g_result, ledgerVars, deductVars>>
    /\ UNCHANGED genOthers

\* lines 885-925: the parts of this attempt; the File API upload may fail at
\* any image, and then every image is inlined
GenAssemble ==
    /\ g_pc = "assembling"
    /\ \E fail_at \in 0..Len(images_to_send) :
          parts' = AssembleParts(full_prompt, images_to_send, fail_at)
    /\ gen_try' = 1
    /\ g_pc' = "generating"
    /\ UNCHANGED <<GOOGLE_API_KEY, current_user, download_failed,
                   ranked_images, reference_images,
                   full_prompt, images_to_send, attempt, provider_log, response,
                   genStores, g_result, ledgerVars, deductVars>>
    /\ UNCHANGED genOthers

\* lines 599-618 and 927-962, 1046-1075: one generate_content call of
\* _generate_with_retry and what follows it without another call
GenCall ==
    /\ g_pc = "generating"
    /\ \E o \in GenerationOutcomes :
          /\ provider_log' = Append(provider_log,
                 [attempt |-> attempt, try |-> gen_try,
                  sent |-> Len(parts) - 1, outcome |-> o])
          /\ IF o = "image"
             THEN /\ response' = "image"
                  /\ g_pc' = "uploading"
                  /\ UNCHANGED <<gen_try, attempt, images_to_send, g_result>>
             ELSE IF o = "no_image"
             THEN /\ response' = "no_image"
                  /\ GenFails(HttpError(500, "no_image"))
                  /\ UNCHANGED <<gen_try, attempt, images_to_send>>
             ELSE IF Retries(o, gen_try)
             THEN /\ gen_try' = gen_try + 1
                  /\ UNCHANGED <<response, g_pc, attempt, images_to_send, g_result>>
             ELSE IF Shrinks(attempt, Len(images_to_send), o)
             THEN /\ images_to_send' = Shrink(images_to_send)
                  /\ attempt' = attempt + 1
                  /\ g_pc' = "assembling"
                  /\ UNCHANGED <<response, gen_try, g_result>>
             ELSE /\ GenFails(ErrorResponse(o))
                  /\ UNCHANGED <<response, gen_try, attempt, images_to_send>>
    /\ UNCHANGED <<GOOGLE_API_KEY, current_user, download_failed,
                   ranked_images, reference_images,
                   full_prompt, parts, genStores, ledgerVars, deductVars>>
    /\ UNCHANGED genOthers

\* line 614: the request task is cancelled (the client went away, the server
\* shuts down) at its one suspension point, the sleep between two provider
\* calls; CancelledError is no Exception and no handler catches it
GenAbort ==
    /\ g_pc = "generating"
    /\ gen_try > 1
    /\ g_pc' = "aborted"
    /\ UNCHANGED <<GOOGLE_API_KEY, current_user, genLocals, genStores, g_result,
                   ledgerVars, deductVars>>
    /\ UNCHANGED genOthers

\* the object the request stores its image as
NewBlob == 1

\* lines 964-986: the generated image is uploaded to the bucket
GenUpload ==
    /\ g_pc = "uploading"
    /\ \E ok \in BOOLEAN :
          IF ok
          THEN /\ storage_objects' = storage_objects \cup {NewBlob}
               /\ g_pc' = "recording"
               /\ UNCHANGED g_result
          ELSE /\ GenFails(HttpError(500, "storage_upload_failed"))
               /\ UNCHANGED storage_objects
    /\ UNCHANGED <<GOOGLE_API_KEY, current_user, genLocals, generated_images,
                   generation_id, ledgerVars, deductVars>>
    /\ UNCHANGED genOthers

\* lines 988-1015: the generation record is inserted; a failure is only logged
GenRecord ==
    /\ g_pc = "recording"
    /\ \E ok \in BOOLEAN :
          IF ok
          THEN /\ generated_images' = Append(generated_images,
                      [id |-> Len(generated_images) + 1, image_url |-> NewBlob,
                       reference_images_count |-> Len(images_to_send)])
               /\ generation_id' = Len(generated_images) + 1
          ELSE UNCHANGED <<generated_images, generation_id>>
    /\ g_pc' = "recorded"
    /\ UNCHANGED <<GOOGLE_API_KEY, current_user, genLocals, storage_objects, g_result,
                   ledgerVars, deductVars>>
    /\ UNCHANGED genOthers

\* lines 1028-1044
SuccessResponse ==
    [status |-> 200, detail |-> "ok", image_url |-> NewBlob, id |-> generation_id,
     prompt_used |-> full_prompt, reference_images_count |-> Len(images_to_send),
     credits_used |-> IF current_user THEN GENERATE_IMAGE_COST ELSE 0]

GenSucceeds ==
    /\ g_pc' = "done"
    /\ g_result' = SuccessResponse

\* lines 1017-1025: a logged-in user's request calls _deduct_credits
GenMeter ==
    /\ g_pc = "recorded"
    /\ current_user
    /\ DeductCall(GenCaller, "generate_image", GENERATE_IMAGE_COST)
    /\ g_pc' = "metering"
    /\ UNCHANGED <<GOOGLE_API_KEY, current_user, genLocals, genStores, g_result>>
    /\ UNCHANGED genOthers

GenMeterStep ==
    /\ g_pc = "metering"
    /\ DeductStep(GenCaller)
    /\ UNCHANGED genVars
    /\ UNCHANGED genOthers

\* lines 1027-1048: _deduct_credits returned or raised, or was not called
GenReturn ==
    /\ \/ g_pc = "recorded" /\ ~current_user /\ GenSucceeds
       \/ /\ g_pc = "metering"
          /\ d_pc[GenCaller] = "done"
          /\ IF d_result[GenCaller] = "raised_402"
             THEN GenFails(HttpError(402, "insufficient_credits"))
             ELSE GenSucceeds
    /\ UNCHANGED <<GOOGLE_API_KEY, current_user, genLocals, genStores,
                   ledgerVars, deductVars>>
    /\ UNCHANGED genOthers

GenNext ==
    \/ GenRequest \/ GenResolve \/ GenRank \/ GenDownload \/ GenAssemble
    \/ GenCall \/ GenAbort \/ GenUpload \/ GenRecord \/ GenMeter \/ GenMeterStep \/ GenReturn

(***************************************************************************)
(* analyze_dataset_images_fast                                             *)
(***************************************************************************)
\* the size of the semaphore (20 in the program), scaled
FAST_CONCURRENCY == 2
\* most image URLs of one request
MaxUrls == 3

FastCaller == 1

NoFastRequest == [urls |-> 0, authenticated |-> FALSE]

\* a task sem_process(url): where it is, and the times it entered
\* process_single_image
NewTask == [at |-> "waiting", entered |-> 0]

\* the request ends with an HTTPException
FastError(code, what) ==
    [status |-> code, detail |-> what, successful |-> 0, credits_used |-> 0]

FastIdle ==
    /\ af_request = NoFastRequest
    /\ af_tasks = <<>>
    /\ af_pc = "idle"
    /\ af_result = FastError(0, "none")

\* a request with some image URLs, from a logged-in user or not
FastInit ==
    /\ af_request \in [urls : 0..MaxUrls, authenticated : BOOLEAN]
    /\ af_tasks = <<>>
    /\ af_pc = "called"
    /\ af_result = FastError(0, "none")

\* the result of one process_single_image: a stored row, an error dict, or
\* None when the insert returned no row
TaskResults == {"stored", "error", "none"}

Holding == {i \in 1..Len(af_tasks) : af_tasks[i].at = "processing"}

Finished(i) == af_tasks[i].at \in TaskResults

\* lines 1323-1324 and 1399-1404: no URL is a 400; otherwise gather creates one
\* task for each URL
FastGather ==
    /\ af_pc = "called"
    /\ IF af_request.urls = 0
       THEN /\ af_pc' = "failed"
            /\ af_result' = FastError(400, "no_image_urls")
            /\ UNCHANGED af_tasks
       ELSE /\ af_pc' = "gathering"
            /\ af_tasks' = [i \in 1..af_request.urls |-> NewTask]
            /\ UNCHANGED af_result
    /\ UNCHANGED <<af_request, ledgerVars, deductVars>>
    /\ UNCHANGED fastOthers

\* lines 1401-1402: `async with semaphore`, granted in the order of the tasks;
\* the task then waits for its download (line 1347)
FastAcquire(i) ==
    /\ af_pc = "gathering"
    /\ i \in 1..Len(af_tasks)
    /\ af_tasks[i].at = "waiting"
    /\ \A j \in 1..(i - 1) : af_tasks[j].at # "waiting"
    /\ Cardinality(Holding) < FAST_CONCURRENCY
    /\ af_tasks' = [af_tasks EXCEPT ![i] = [at |-> "processing", entered |-> @.entered + 1]]
    /\ UNCHANGED <<af_request, af_pc, af_result, ledgerVars, deductVars>>
    /\ UNCHANGED fastOthers

\* lines 1345-1396: the download returned or raised; analysis and insert run
\* without yielding, the task returns its result and frees the semaphore
FastProcess(i) ==
    /\ af_pc = "gathering"
    /\ i \in 1..Len(af_tasks)
    /\ af_tasks[i].at = "processing"
    /\ \E result \in TaskResults : af_tasks' = [af_tasks EXCEPT ![i].at = result]
    /\ UNCHANGED <<af_request, af_pc, af_result, ledgerVars, deductVars>>
    /\ UNCHANGED fastOthers

\* line 1407
valid_results == {i \in 1..Len(af_tasks) : af_tasks[i].at = "stored"}

FastResponse ==
    [status |-> 200, detail |-> "success",
     successful |-> Cardinality(valid_results),
     credits_used |-> IF af_request.authenticated
                      THEN Cardinality(valid_results) * ANALYZE_DATASET_PER_IMAGE_COST
                      ELSE 0]

\* lines 1404-1418: gather returned; a logged-in user with stored results is
\* metered
FastMeter ==
    /\ af_pc = "gathering"
    /\ \A i \in 1..Len(af_tasks) : Finished(i)
    /\ af_request.authenticated /\ valid_results # {}
    /\ DeductCall(FastCaller, "analyze_dataset_fast",
                  Cardinality(valid_results) * ANALYZE_DATASET_PER_IMAGE_COST)
    /\ af_pc' = "metering"
    /\ UNCHANGED <<af_request, af_tasks, af_result>>
    /\ UNCHANGED fastOthers

FastMeterStep ==
    /\ af_pc = "metering"
    /\ DeductStep(FastCaller)
    /\ UNCHANGED fastVars
    /\ UNCHANGED fastOthers

\* lines 1420-1429: the response, or the 402 of _deduct_credits, which nothing
\* in the function catches
FastReturn ==
    /\ \/ /\ af_pc = "gathering"
          /\ \A i \in 1..Len(af_tasks) : Finished(i)
          /\ ~(af_request.authenticated /\ valid_results # {})
          /\ af_pc' = "done"
          /\ af_result' = FastResponse
       \/ /\ af_pc = "metering"
          /\ d_pc[FastCaller] = "done"
          /\ IF d_result[FastCaller] = "raised_402"
             THEN af_pc' = "failed" /\ af_result' = FastError(402, "insufficient_credits")
             ELSE af_pc' = "done" /\ af_result' = FastResponse
    /\ UNCHANGED <<af_request, af_tasks, ledgerVars, deductVars>>
    /\ UNCHANGED fastOthers

FastNext ==
    \/ FastGather
    \/ \E i \in 1..MaxUrls : FastAcquire(i) \/ FastProcess(i)
    \/ FastMeter \/ FastMeterStep \/ FastReturn

(***************************************************************************)
(* Properties of _find_relevant_images_semantic                            *)
(***************************************************************************)
RankReturned == rank_call \in {"ranked", "fell_back", "unanalyzed", "raised"}

RankScorable == SelectSeq(rank_images_data, HasSearchText)

\* position of a row in the input list
RankInputPos(img) == CHOOSE i \in 1..Len(rank_images_data) : rank_images_data[i] = img

\* the similarity the provider's vectors give an analyzed row
RankSimOf(img) ==
    rank_embed.sims[CHOOSE k \in 1..Len(RankScorable) : RankScorable[k] = img]

\* an embed_content call (prompt or batch) raised
EmbedFailed == rank_embed.fail_call # 0

\* C7: if any embedding call fails, on the prompt or on any batch, the function
\* does not raise and returns exactly the first min(N, pool size) rows of the
\* input in their original order.
C7_EmbedFailureFallsBack ==
    (RankReturned /\ EmbedFailed) =>
        /\ rank_call = "fell_back"
        /\ Len(rank_selected) = Min(rank_max_images, Len(rank_images_data))
        /\ \A k \in 1..Len(rank_selected) : rank_selected[k] = rank_images_data[k]

\* a batch call after the first batch fails, on a pool larger than N
C7_Witness ==
    /\ rank_call = "fell_back"
    /\ rank_embed.fail_call = 3
    /\ Len(rank_images_data) > rank_max_images
    /\ Len(rank_selected) = rank_max_images

UnanalyzedNeverAhead(selected) ==
    \A i, j \in 1..Len(selected) :
        (i < j /\ HasSearchText(selected[j])) => HasSearchText(selected[i])

UnanalyzedOnlyFills(selected) ==
    (\E k \in 1..Len(selected) : ~HasSearchText(selected[k])) =>
        \A i \in 1..Len(rank_images_data) :
            HasSearchText(rank_images_data[i]) => rank_images_data[i] \in Range(selected)

\* C8 as stated: in every returned list no row without search text precedes a
\* row with search text, and a row without search text is included only once
\* all analyzed rows have been placed.
C8_EveryReturnedList ==
    RankReturned => UnanalyzedNeverAhead(rank_selected) /\ UnanalyzedOnlyFills(rank_selected)

\* C8 amended: the same, for the lists returned when no embedding call failed.
C8_RankedListsAnalyzedFirst ==
    (RankReturned /\ ~EmbedFailed) =>
        UnanalyzedNeverAhead(rank_selected) /\ UnanalyzedOnlyFills(rank_selected)

\* a ranked list that ends with a filler row which came first in the input
C8_Witness ==
    /\ rank_call = "ranked"
    /\ Len(rank_images_data) >= 3
    /\ ~HasSearchText(rank_images_data[1])
    /\ Len(rank_selected) >= 2
    /\ rank_selected[Len(rank_selected)] = rank_images_data[1]
    /\ HasSearchText(rank_selected[1])

\* the analyzed rows of the returned list
RankSelectedAnalyzed == SelectSeq(rank_selected, HasSearchText)

\* C9: when all embedding calls succeed, every analyzed row is scored exactly
\* once (with the similarity of its own text), and the analyzed rows returned
\* are the N highest-scoring ones in non-increasing order of similarity, rows
\* of equal similarity in their original input order.
C9_TopNStableDescending ==
    rank_call = "ranked" =>
        /\ Len(rank_scored) = Len(RankScorable)
        /\ \A k \in 1..Len(RankScorable) :
              Cardinality({m \in 1..Len(rank_scored) :
                              rank_scored[m] = <<rank_embed.sims[k], RankScorable[k]>>}) = 1
        /\ Len(RankSelectedAnalyzed) = Min(rank_max_images, Len(RankScorable))
        /\ \A i, j \in 1..Len(RankSelectedAnalyzed) :
              i < j =>
                LET a == RankSelectedAnalyzed[i]
                    b == RankSelectedAnalyzed[j]
                IN  \/ RankSimOf(a) > RankSimOf(b)
                    \/ RankSimOf(a) = RankSimOf(b) /\ RankInputPos(a) < RankInputPos(b)
        /\ \A k \in 1..Len(RankScorable) :
              RankScorable[k] \notin Range(rank_selected) =>
                  \A i \in 1..Len(RankSelectedAnalyzed) :
                      RankSimOf(RankSelectedAnalyzed[i]) >= RankSimOf(RankScorable[k])

\* several batches, a tie among the returned rows and an analyzed row left out
C9_Witness ==
    /\ rank_call = "ranked"
    /\ Len(RankScorable) > EMBED_BATCH_SIZE
    /\ Len(RankSelectedAnalyzed) >= 2
    /\ Len(RankSelectedAnalyzed) < Len(RankScorable)
    /\ \E i \in 1..Len(RankSelectedAnalyzed) - 1 :
          RankSimOf(RankSelectedAnalyzed[i]) = RankSimOf(RankSelectedAnalyzed[i + 1])
    /\ RankInputPos(rank_selected[1]) > 1

(***************************************************************************)
(* _rerank_images_with_vision                                              *)
(***************************************************************************)
\* VISION_RERANK_BATCH_SIZE (8 in the program), scaled
VISION_RERANK_BATCH_SIZE == 2
VISION_RERANK_MAX_RETRIES == 3
\* largest candidate list handed to the reranker
MaxCandidates == 5
\* the score 1.0 on the model's integer scale (scores in halves)
ONE == 2

\* the values a response row may carry as its score before clamping: one below
\* 0.0, one inside the range, one above 1.0
RawScores == {0 - 1, 1, ONE + 1}

\* candidate rows n long, in semantic order
Candidates(n) == [i \in 1..n |-> [id |-> i, analysis |-> TaggedAnalysis]]

\* a clamp that has no lower limit
ClampUpperOnly(s) == Min(ONE, s)

\* max(0.0, min(1.0, s))
Clamp(s) == Max(0, Min(ONE, s))

\* the rows of a batch that were downloaded, in batch order: local_idx -> img
LoadedImages(batch, loaded) ==
    LET Pick[k \in 0..Len(batch)] ==
            IF k = 0 THEN <<>>
            ELSE IF k \in loaded THEN Pick[k - 1] \o <<batch[k]>> ELSE Pick[k - 1]
    IN  Pick[Len(batch)]

\* the responses of one batch call that json.loads and the row loop tell apart;
\* a "scores" response has one entry per candidate: <<s>> for a row with raw
\* score s, or <<>> for a candidate with no usable row (no row, a row that is
\* no object, a candidate or score that does not convert)
ResponseKinds == {"invalid_json", "empty_text", "not_an_object", "scores_not_iterable"}

Responses(k) ==
    [kind : ResponseKinds, rows : {<<>>}]
        \cup [kind : {"scores"}, rows : [1..k -> {<<>>} \cup {<<r>> : r \in RawScores}]]

NoResponse == [kind |-> "none", rows |-> <<>>]

\* what the downloads and the vision provider may do for one batch: the rows
\* that load, the attempts that raise before one succeeds (all of them:
\* VISION_RERANK_MAX_RETRIES), and the response of the successful attempt
BatchOutcomes(batch) ==
    LET some == (SUBSET (1..Len(batch))) \ {{}}
    IN  {[loaded |-> {}, failures |-> 0, response |-> NoResponse]}
        \cup {[loaded |-> L, failures |-> VISION_RERANK_MAX_RETRIES,
               response |-> NoResponse] : L \in some}
        \cup UNION {[loaded : {L}, failures : 0..(VISION_RERANK_MAX_RETRIES - 1),
                     response : Responses(Cardinality(L))] : L \in some}

\* the try block of lines 527-546: TRUE when parsing the response raises
ParseRaises(resp) == resp.kind \in {"invalid_json", "scores_not_iterable"}

\* score_map.get(c, 0.0) after the row loop
VisionScore(resp, c) ==
    IF resp.kind = "scores" /\ resp.rows[c] # <<>>
    THEN Clamp(resp.rows[c][1])
    ELSE 0

\* one pass of the batch loop (lines 456-551) on the loop state st
RerankBatch(st, batch, out) ==
    LET local_idx_to_img == LoadedImages(batch, out.loaded)
        attempts == Min(out.failures + 1, VISION_RERANK_MAX_RETRIES)
        exhausted == out.failures >= VISION_RERANK_MAX_RETRIES
    IN  IF local_idx_to_img = <<>>
        THEN [st EXCEPT !.start = @ + VISION_RERANK_BATCH_SIZE, !.attempts = 0,
                        !.response = "none"]
        ELSE IF exhausted
        THEN [st EXCEPT !.hard_failure = TRUE, !.response = "none",
                        !.attempts = attempts, !.vision_calls = @ + attempts]
        ELSE IF ParseRaises(out.response)
        THEN [st EXCEPT !.hard_failure = TRUE, !.response = out.response.kind,
                        !.attempts = attempts, !.vision_calls = @ + attempts]
        ELSE [st EXCEPT !.start = @ + VISION_RERANK_BATCH_SIZE,
                        !.response = out.response.kind,
                        !.attempts = attempts, !.vision_calls = @ + attempts,
                        !.scored = @ \o [c \in 1..Len(local_idx_to_img) |->
                                          <<VisionScore(out.response, c),
                                            local_idx_to_img[c]>>],
                        !.answers = @ \o [c \in 1..Len(local_idx_to_img) |->
                                          <<IF out.response.kind = "scores"
                                            THEN out.response.rows[c] ELSE <<>>,
                                            local_idx_to_img[c]>>]]

\* the fallback of a failed rerank that keeps the scores already collected
RerankFallbackPartial(st, images_data, max_images) ==
    LET ids == {st.scored[k][2] : k \in 1..Len(st.scored)}
        unscored == SelectSeq(images_data, LAMBDA img : img \notin ids)
        all == SortDesc(st.scored \o [k \in 1..Len(unscored) |-> <<0, unscored[k]>>])
    IN  [k \in 1..Min(max_images, Len(all)) |-> all[k][2]]

\* lines 553-556: the semantic order, whatever was scored
RerankFallback(st, images_data, max_images) == Take(images_data, max_images)

\* lines 553-567: the value returned once the loop has ended
RerankResult(st, images_data, max_images) ==
    IF st.hard_failure \/ st.scored = <<>>
    THEN RerankFallback(st, images_data, max_images)
    ELSE LET scored_ids == {st.scored[k][2] : k \in 1..Len(st.scored)}
             unscored == SelectSeq(images_data, LAMBDA img : img \notin scored_ids)
             scored == SortDesc(st.scored \o [k \in 1..Len(unscored) |-> <<0, unscored[k]>>])
         IN  [k \in 1..Min(max_images, Len(scored)) |-> scored[k][2]]

\* answers: what the vision model said of each row it was shown, <<s>> for the
\* value s or <<>> for none, as a record of the call; attempts and response:
\* the calls made for the batch last processed and the kind of response it got
RerankStart == [start |-> 0, scored |-> <<>>, hard_failure |-> FALSE,
                attempts |-> 0, vision_calls |-> 0, answers |-> <<>>,
                response |-> "none"]


RerankIdle ==
    /\ rr_images_data = <<>>
    /\ rr_max_images = 0
    /\ rr_loop = RerankStart
    /\ rr_call = "idle"
    /\ rr_selected = <<>>

RerankInit ==
    /\ \E n \in 0..MaxCandidates : rr_images_data = Candidates(n)
    /\ rr_max_images \in 1..MaxCandidates
    /\ rr_loop = RerankStart
    /\ rr_call = "called"
    /\ rr_selected = <<>>

\* lines 447-450: nothing to rerank
RerankPassThrough ==
    /\ rr_call = "called"
    /\ Len(rr_images_data) <= rr_max_images
    /\ rr_selected' = Take(rr_images_data, rr_max_images)
    /\ rr_call' = "passed_through"
    /\ UNCHANGED <<rr_images_data, rr_max_images, rr_loop>>
    /\ UNCHANGED rrOthers

RerankEnter ==
    /\ rr_call = "called"
    /\ Len(rr_images_data) > rr_max_images
    /\ rr_call' = "looping"
    /\ UNCHANGED <<rr_images_data, rr_max_images, rr_loop, rr_selected>>
    /\ UNCHANGED rrOthers

RerankLoopDone == rr_loop.hard_failure \/ rr_loop.start >= Len(rr_images_data)

RerankOneBatch ==
    /\ rr_call = "looping"
    /\ ~RerankLoopDone
    /\ LET batch == Slice(rr_images_data, rr_loop.start,
                          rr_loop.start + VISION_RERANK_BATCH_SIZE)
       IN  \E out \in BatchOutcomes(batch) : rr_loop' = RerankBatch(rr_loop, batch, out)
    /\ UNCHANGED <<rr_images_data, rr_max_images, rr_call, rr_selected>>
    /\ UNCHANGED rrOthers

RerankReturn ==
    /\ rr_call = "looping"
    /\ RerankLoopDone
    /\ rr_selected' = RerankResult(rr_loop, rr_images_data, rr_max_images)
    /\ rr_call' = "returned"
    /\ UNCHANGED <<rr_images_data, rr_max_images, rr_loop>>
    /\ UNCHANGED rrOthers

RerankNext == RerankPassThrough \/ RerankEnter \/ RerankOneBatch \/ RerankReturn

(***************************************************************************)
(* Properties of _rerank_images_with_vision                                *)
(***************************************************************************)
\* C10: if any batch hard-fails (retries exhausted or the response does not
\* parse), no later batch is processed and the function returns, without
\* raising, exactly the first N candidates in the input (semantic) order,
\* whatever scores earlier batches collected.
C10_HardFailureKeepsSemanticOrder ==
    /\ [](rr_loop.hard_failure =>
            /\ rr_call \in {"looping", "returned"}
            /\ rr_call = "returned" =>
                  /\ Len(rr_selected) = rr_max_images
                  /\ \A k \in 1..rr_max_images : rr_selected[k] = rr_images_data[k])
    /\ [][rr_loop.hard_failure => rr_loop' = rr_loop]_vars

\* a later batch fails after an earlier one scored a row outside the first N
C10_Witness ==
    /\ rr_call = "returned"
    /\ rr_loop.hard_failure
    /\ rr_loop.start >= VISION_RERANK_BATCH_SIZE
    /\ rr_loop.start + VISION_RERANK_BATCH_SIZE < Len(rr_images_data)
    /\ \E k \in 1..Len(rr_loop.scored) :
          /\ rr_loop.scored[k][1] = ONE
          /\ rr_loop.scored[k][2] \notin Range(rr_selected)
    /\ rr_loop.scored[1][1] = 0

\* the score the reranker is to give a row: the model's value for it limited to
\* [0, 1], and 0 for a row the model was not shown or gave no value
ExpectedScore(img) ==
    IF \E k \in 1..Len(rr_loop.answers) :
            rr_loop.answers[k][2] = img /\ rr_loop.answers[k][1] # <<>>
    THEN LET k == CHOOSE k \in 1..Len(rr_loop.answers) :
                      rr_loop.answers[k][2] = img /\ rr_loop.answers[k][1] # <<>>
             v == rr_loop.answers[k][1][1]
         IN  IF v < 0 THEN 0 ELSE IF v > ONE THEN ONE ELSE v
    ELSE 0

\* C11: when the pool is larger than N and no batch hard-failed, the returned
\* list has exactly N distinct rows of the pool, every score the function
\* recorded is the model's value clamped to [0, 1], the rows are in
\* non-increasing order of that score (0 for a row not downloaded or not
\* scored), and no row left out scores higher than a row returned.
C11_RerankTopNByClampedScore ==
    (rr_call = "returned" /\ ~rr_loop.hard_failure) =>
        /\ Len(rr_images_data) > rr_max_images
        /\ Len(rr_selected) = rr_max_images
        /\ Range(rr_selected) \subseteq Range(rr_images_data)
        /\ \A j, k \in 1..Len(rr_selected) : j # k => rr_selected[j] # rr_selected[k]
        /\ \A k \in 1..Len(rr_loop.scored) :
              rr_loop.scored[k][1] = ExpectedScore(rr_loop.scored[k][2])
        /\ \A j, k \in 1..Len(rr_selected) :
              j < k => ExpectedScore(rr_selected[j]) >= ExpectedScore(rr_selected[k])
        /\ \A img \in Range(rr_images_data) \ Range(rr_selected) :
              \A k \in 1..Len(rr_selected) :
                  ExpectedScore(img) <= ExpectedScore(rr_selected[k])

\* a rerank that moved a later row ahead: values above 1 and below 0 were
\* clamped, one row was not downloaded, one was given no value
C11_Witness ==
    /\ rr_call = "returned"
    /\ ~rr_loop.hard_failure
    /\ Len(rr_selected) >= 2
    /\ rr_selected[1].id > rr_selected[2].id
    /\ \E k \in 1..Len(rr_loop.answers) : rr_loop.answers[k][1] = <<ONE + 1>>
    /\ \E k \in 1..Len(rr_loop.answers) : rr_loop.answers[k][1] = <<0 - 1>>
    /\ \E k \in 1..Len(rr_loop.answers) : rr_loop.answers[k][1] = <<>>
    /\ Len(rr_loop.answers) < Len(rr_images_data)

\* C23: each batch call is attempted at most VISION_RERANK_MAX_RETRIES times,
\* and a batch whose attempts all failed, or whose response is anything but the
\* JSON scores object (empty text and JSON of another shape included), marks
\* the whole rerank as failed.
C23_UnparsedBatchFailsRerank ==
    /\ rr_loop.attempts <= VISION_RERANK_MAX_RETRIES
    /\ (rr_loop.attempts > 0 /\ rr_loop.response # "scores") => rr_loop.hard_failure

(***************************************************************************)
(* Properties of _deduct_credits                                           *)
(***************************************************************************)
LedgerUnchanged == UNCHANGED <<credit_balances, credit_transactions, usage_logs>>

\* C4: for every balance and every cost with remaining_credits < cost, a call
\* of _deduct_credits that reads the balance raises the insufficient-credit
\* error (402) and leaves credit_balances, credit_transactions and usage_logs
\* unchanged: the raising step writes nothing and the call takes no step after.
C4_InsufficientRaisesNoWrite ==
    /\ [][\A p \in Callers :
            (/\ d_pc[p] = "read" /\ d_pc'[p] # "read"
             /\ credit_balances # <<>>
             /\ d_result'[p] # "swallowed_error"
             /\ credit_balances[1].remaining_credits < d_credits[p])
            => (d_result'[p] = "raised_402" /\ d_pc'[p] = "done" /\ LedgerUnchanged)]_vars
    /\ [][\A p \in Callers :
            d_result[p] = "raised_402" =>
                (d_pc'[p] = d_pc[p] /\ d_result'[p] = d_result[p])]_vars
    /\ [](\A p \in Callers :
            d_pc[p] \in {"update", "log_transaction", "log_usage"} =>
                d_balance[p].remaining_credits >= d_credits[p])

\* the spec's scenario: remaining_credits 3, cost 5, the call raised
C4_Witness ==
    \E p \in Callers :
        /\ d_result[p] = "raised_402"
        /\ d_credits[p] = GENERATE_IMAGE_COST
        /\ d_balance[p].remaining_credits = 3
        /\ credit_balances = <<d_balance[p]>>
        /\ credit_transactions = <<>>
        /\ usage_logs = <<>>

\* both calls went through the check on the same balance row
ReadSameBalance ==
    /\ credit_balances # <<>>
    /\ \A p \in Callers : d_result[p] = "returned"
    /\ \A p, q \in Callers : d_balance[p] = d_balance[q]

\* C22: two overlapping _deduct_credits calls for one user can both read the
\* same sufficient balance before either writes: both pass the check, both
\* complete, and the row left behind carries the decrement of one call only,
\* computed from the balance both of them read.
C22_OverlappingCallsBothPass ==
    ReadSameBalance =>
        /\ \A p \in Callers : d_balance[p].remaining_credits >= d_credits[p]
        /\ \E p \in Callers :
              credit_balances[1] = UpdatedBalance(d_balance[p], d_credits[p])
        /\ Len(credit_transactions) = NumCallers
        /\ Len(usage_logs) = NumCallers

\* both calls completed although the balance they read covered only one of them
C22_Witness ==
    /\ ReadSameBalance
    /\ \A p \in Callers : d_credits[p] > 0
    /\ \A p, q \in Callers :
          p # q => d_balance[p].remaining_credits < d_credits[p] + d_credits[q]

\* C28: after any sequence of _deduct_credits calls, interleaved or not,
\* remaining_credits is never negative and used_credits + remaining_credits
\* keeps the value the balance row was created with (total_credits, which no
\* call changes).
C28_BalanceStaysConsistent ==
    /\ [](\A k \in 1..Len(credit_balances) :
            /\ credit_balances[k].remaining_credits >= 0
            /\ credit_balances[k].used_credits + credit_balances[k].remaining_credits
                  = credit_balances[k].total_credits)
    /\ [][/\ Len(credit_balances') = Len(credit_balances)
          /\ \A k \in 1..Len(credit_balances) :
                credit_balances'[k].total_credits = credit_balances[k].total_credits]_vars

\* two calls that interleaved (both read the row before either wrote) have
\* completed and left remaining_credits at 0
C28_Witness ==
    /\ credit_balances # <<>>
    /\ \A p \in Callers : d_pc[p] = "done" /\ d_result[p] = "returned"
    /\ \A p, q \in Callers : d_balance[p] = d_balance[q]
    /\ credit_balances[1].remaining_credits = 0
    /\ credit_balances[1].used_credits > 0

RECURSIVE SumOf(_)
SumOf(numbers) == IF numbers = <<>> THEN 0 ELSE numbers[1] + SumOf(Tail(numbers))

NoCallInFlight == \A p \in Callers : d_pc[p] \in {"idle", "done"}

\* C29: once the _deduct_credits calls made for a user have ended, the total
\* decrease of remaining_credits equals the sum of the amounts of the
\* credit_transactions rows written and the sum of credits_used of the
\* usage_logs rows written: no decrement without its two rows, no row without
\* its decrement.
C29_LedgerMatchesBalance ==
    (NoCallInFlight /\ credit_balances # <<>>) =>
        /\ credit_balances[1].total_credits - credit_balances[1].remaining_credits
              = SumOf([k \in 1..Len(credit_transactions) |-> 0 - credit_transactions[k].amount])
        /\ credit_balances[1].total_credits - credit_balances[1].remaining_credits
              = SumOf([k \in 1..Len(usage_logs) |-> usage_logs[k].credits_used])

(***************************************************************************)
(* Properties of generate_image                                            *)
(***************************************************************************)
\* the provider of the shrink-retry scenario: every call carrying more than 3
\* images was rejected with 400 INVALID_ARGUMENT, every other call returned an
\* image
MockProvider ==
    \A k \in 1..Len(provider_log) :
        provider_log[k].outcome =
            IF provider_log[k].sent > 3 THEN "invalid_argument" ELSE "image"

\* the request is past its generation stage
GenerationOver ==
    g_pc \in {"uploading", "recording", "recorded", "metering", "done", "failed"}

\* the images of the parts sent last, in order
SentImages == [k \in 1..(Len(parts) - 1) |-> parts[k + 1].ref]

\* C1: against a provider that rejects every call carrying more than 3 images
\* with an invalid-argument error and accepts the others, a request that starts
\* with more than 3 reference images makes exactly two provider calls, the
\* first with all its images (rejected), the second, after one shrink, with
\* exactly the first 3 of its rank-ordered reference images, and that call's
\* image is the generation result; the request then ends with the success
\* response counting 3 reference images, unless the later upload or metering
\* step ends it.
C1_ShrinkRetrySucceedsWithTopThree ==
    (MockProvider /\ Len(reference_images) > 3) =>
        /\ Len(provider_log) <= 2
        /\ g_pc # "idle" /\ g_pc # "resolving"
        /\ GenerationOver =>
              /\ Len(provider_log) = 2
              /\ provider_log[1] = [attempt |-> 0, try |-> 1,
                                    sent |-> Len(reference_images),
                                    outcome |-> "invalid_argument"]
              /\ provider_log[2] = [attempt |-> 1, try |-> 1, sent |-> 3,
                                    outcome |-> "image"]
              /\ images_to_send = Take(reference_images, 3)
              /\ SentImages = images_to_send
              /\ reference_images = ranked_images =>
                    images_to_send = Take(ranked_images, 3)
              /\ response = "image"
              /\ g_pc = "done" =>
                    /\ g_result.status = 200
                    /\ g_result.reference_images_count = 3
              /\ g_pc = "failed" =>
                    g_result.detail \in {"storage_upload_failed", "insufficient_credits"}

\* a request that started with 4 ranked reference images, of which all were
\* downloaded, ended with the success response after the shrink retry
C1_Witness ==
    /\ MockProvider
    /\ ranked_images = <<1, 2, 3, 4>>
    /\ reference_images = ranked_images
    /\ Len(provider_log) = 2
    /\ images_to_send = <<1, 2, 3>>
    /\ g_pc = "done"
    /\ g_result.status = 200

\* the provider call a step made, if it made one
ProviderCalled == Len(provider_log') = Len(provider_log) + 1

LastOutcome == provider_log'[Len(provider_log')].outcome

IsError(o) == o \notin {"image", "no_image"}

\* the step started another assembled attempt
ShrinkRetried == ProviderCalled /\ g_pc' = "assembling"

\* the step called the provider again for the same assembled request
CalledAgain == ProviderCalled /\ g_pc' = "generating"

\* C2: a shrink retry happens only on the first assembled attempt, only with
\* more than 3 images sent and only for an invalid-argument error of the
\* provider; every other error that leaves _generate_with_retry ends the
\* request with an error, and an invalid-argument rejection ends it with the
\* 502 "request rejected" error.
C2_ShrinkOnlyForInvalidArgument ==
    [][ProviderCalled /\ IsError(LastOutcome) /\ ~CalledAgain =>
          /\ ShrinkRetried =>
                /\ attempt = 0
                /\ Len(images_to_send) > 3
                /\ LastOutcome = "invalid_argument"
          /\ ~ShrinkRetried =>
                /\ g_pc' = "failed"
                /\ attempt' = attempt
                /\ LastOutcome = "invalid_argument" =>
                      g_result' = HttpError(502, "request_rejected")]_vars

\* C3: one assembled request is sent to the provider at most 3 times; a
\* response ends the calls, another call follows only a server-class error, an
\* error of another class is not retried, and a server-class error on the
\* third call ends the request with the 503 "temporarily unavailable" error.
C3_RetryOnlyServerErrorsThen503 ==
    [][ProviderCalled =>
          /\ gen_try <= GEMINI_MAX_RETRIES
          /\ ~IsError(LastOutcome) => ~CalledAgain
          /\ CalledAgain => IsServerError(LastOutcome) /\ gen_try' = gen_try + 1
          /\ (IsError(LastOutcome) /\ ~IsServerError(LastOutcome)) => ~CalledAgain
          /\ (IsServerError(LastOutcome) /\ gen_try = GEMINI_MAX_RETRIES) =>
                /\ g_pc' = "failed"
                /\ g_result' = HttpError(503, "temporarily_unavailable")]_vars

\* the place of a stage in the pipeline
StageOrder(pc) ==
    CASE pc = "idle" -> 0
      [] pc = "resolving" -> 1
      [] pc \in {"ranking", "downloading"} -> 2
      [] pc = "assembling" -> 3
      [] pc = "generating" -> 4
      [] pc = "uploading" -> 5
      [] pc \in {"recording", "recorded"} -> 6
      [] pc = "metering" -> 7
      [] OTHER -> 8

\* C14: a request moves through resolve, rank, assemble, generate, upload,
\* record, meter in that order (going back only from generate to assemble, once,
\* for the shrink retry); nothing is stored, recorded or metered before its
\* stage; a request that is not cancelled ends in DONE with status 200 and the
\* prompt it used, after a provider call, the upload and, for a logged-in
\* user, the metering call, or in FAILED with an HTTP status code and a detail.
C14_StagesInOrderStructuredEnd ==
    /\ [][\/ StageOrder(g_pc') >= StageOrder(g_pc)
          \/ /\ g_pc = "generating" /\ g_pc' = "assembling"
             /\ attempt = 0 /\ attempt' = 1]_vars
    /\ [](/\ provider_log # <<>> =>
                \/ StageOrder(g_pc) >= 4
                \/ g_pc = "assembling" /\ attempt = 1
          /\ storage_objects # {} => StageOrder(g_pc) >= 6
          /\ generated_images # <<>> => StageOrder(g_pc) >= 6 /\ g_pc # "recording"
          /\ d_pc[GenCaller] # "idle" => StageOrder(g_pc) >= 7
          /\ g_pc = "done" =>
                /\ g_result.status = 200
                /\ g_result.prompt_used = full_prompt
                /\ full_prompt \in {"text_prompt", "reference_prompt"}
                /\ provider_log # <<>>
                /\ provider_log[Len(provider_log)].outcome = "image"
                /\ NewBlob \in storage_objects
                /\ g_result.image_url = NewBlob
                /\ current_user => d_pc[GenCaller] = "done"
          /\ g_pc = "failed" =>
                /\ g_result.status \in {402, 500, 502, 503}
                /\ g_result.detail \notin {"none", "ok"}
          /\ g_pc \in {"idle", "resolving", "ranking", "downloading", "assembling",
                       "generating", "uploading", "recording", "recorded",
                       "metering", "done", "failed", "aborted"})

\* a request that went through every stage and the shrink retry on its way to
\* DONE, and the metering of a logged-in user's request
C14_Witness ==
    /\ g_pc = "done"
    /\ ranked_images # <<>>
    /\ attempt = 1
    /\ current_user
    /\ d_result[GenCaller] = "returned"
    /\ generated_images # <<>>

\* the generation call returned an image and the upload of it succeeded
GeneratedAndUploaded == response = "image" /\ NewBlob \in storage_objects

\* the credits taken from the user's balance since the account was set up
CreditsTaken ==
    IF credit_balances = <<>> THEN 0
    ELSE credit_balances[1].total_credits - credit_balances[1].remaining_credits

\* C15: in one request the generated_images insert happens at most once and
\* the balance is decremented at most once (by the cost of one generation),
\* and each of them only after the generation call returned an image and the
\* upload of the result succeeded.
C15_RecordAndDecrementOnceAfterUpload ==
    /\ [](/\ Len(generated_images) <= 1
          /\ CreditsTaken \in {0, GENERATE_IMAGE_COST}
          /\ Len(credit_transactions) <= 1
          /\ (generated_images # <<>> \/ CreditsTaken # 0) => GeneratedAndUploaded)
    /\ [][/\ generated_images' # generated_images =>
                generated_images = <<>> /\ GeneratedAndUploaded
          /\ credit_balances' # credit_balances =>
                CreditsTaken = 0 /\ GeneratedAndUploaded /\ g_pc = "metering"]_vars

\* a finished request that inserted its record and took its credits
C15_Witness ==
    /\ g_pc = "done"
    /\ Len(generated_images) = 1
    /\ CreditsTaken = GENERATE_IMAGE_COST
    /\ GeneratedAndUploaded

\* C16: a request that was aborted or that ended in FAILED, at whatever stage,
\* has left no blob in the generated-images bucket, no generated_images row
\* and no decrement of the user's balance.
C16_FailedLeavesNothingBehind ==
    g_pc \in {"failed", "aborted"} =>
        /\ storage_objects = {}
        /\ generated_images = <<>>
        /\ CreditsTaken = 0

\* C17: a request whose upload to the bucket failed, or whose generated_images
\* insert failed, does not end with the success response: a request that ended
\* in DONE has its blob in the bucket and its row in generated_images.
C17_UploadOrRecordFailureIsAnError ==
    g_pc = "done" =>
        /\ NewBlob \in storage_objects
        /\ Len(generated_images) = 1
        /\ g_result.id = generated_images[1].id

\* C18: whatever subset of the ranked reference images fails to download, the
\* request goes on to assemble its prompt; its reference images are the
\* ranked images without exactly the failed ones, in ranked order, and they
\* are the images of the first request sent to the provider (of which the
\* shrink retry sends the first 3).
C18_FailedDownloadsDroppedOrderKept ==
    /\ [][g_pc = "downloading" => g_pc' = "assembling"]_vars
    /\ [](/\ download_failed \subseteq Range(ranked_images)
          /\ StageOrder(g_pc) >= 3 =>
                reference_images =
                    SelectSeq(ranked_images, LAMBDA img : img \notin download_failed)
          /\ (g_pc = "generating" /\ attempt = 0) => SentImages = reference_images
          /\ (g_pc = "generating" /\ attempt = 1) =>
                SentImages = Take(reference_images, 3)
          /\ \A k \in 1..Len(provider_log) :
                provider_log[k].attempt = 0 =>
                    provider_log[k].sent = Len(reference_images))

\* the second and the last of four ranked images failed to download and the
\* other two were sent
C18_Witness ==
    /\ ranked_images = <<1, 2, 3, 4>>
    /\ download_failed = {2, 4}
    /\ g_pc = "done"
    /\ SentImages = <<1, 3>>
    /\ g_result.reference_images_count = 2

\* C19: the parts of every request sent to the provider are the prompt text,
\* then one image part for each image being sent, in the order of the images
\* (rank order) and never more than MAX_REFERENCE_IMAGES of them; when the
\* images are inlined after a failed staging upload no staged part remains;
\* without reference images the parts are the text alone.
C19_TextThenOnePartPerImage ==
    g_pc = "generating" =>
        /\ Len(parts) = Len(images_to_send) + 1
        /\ parts[1] = [kind |-> "text", ref |-> 0, text |-> full_prompt]
        /\ Len(images_to_send) <= MAX_REFERENCE_IMAGES
        /\ \A k \in 1..Len(images_to_send) :
              /\ parts[k + 1].kind \in {"file_uri", "inline_bytes"}
              /\ parts[k + 1].ref = images_to_send[k]
        /\ \A j, k \in 2..Len(parts) : parts[j].kind = parts[k].kind
        /\ \A j, k \in 1..Len(images_to_send) :
              j < k => images_to_send[j] < images_to_send[k]
        /\ images_to_send = Take(reference_images, Len(images_to_send))
        /\ reference_images = <<>> => parts = <<TextPartOf("text_prompt")>>

\* a request of four images whose staging upload failed and that is sent with
\* its images inlined
C19_Witness ==
    /\ g_pc = "generating"
    /\ Len(images_to_send) = 4
    /\ \A k \in 2..Len(parts) : parts[k].kind = "inline_bytes"
    /\ Len(parts) = 5

\* the logged-in user's balance does not cover a generation
CannotPay ==
    /\ current_user
    /\ credit_balances # <<>>
    /\ credit_balances[1].remaining_credits < GENERATE_IMAGE_COST

\* C5: a logged-in user's request whose remaining_credits is below the cost of a
\* generation never calls the generation provider, never uploads or records a
\* generated image and never ends with the success response.
C5_InsufficientRejectedBeforeGeneration ==
    CannotPay =>
        /\ provider_log = <<>>
        /\ storage_objects = {}
        /\ generated_images = <<>>
        /\ g_result.status # 200

\* C6: a request whose generation call returned an image and whose upload
\* succeeded ends, whatever _deduct_credits did, with the success response
\* carrying the URL of the uploaded image.
C6_MeteringFailureStillReturnsImage ==
    (g_pc \in {"done", "failed"} /\ response = "image" /\ NewBlob \in storage_objects) =>
        /\ g_pc = "done"
        /\ g_result.status = 200
        /\ g_result.image_url = NewBlob

(***************************************************************************)
(* Properties of _resolve_referenced_dataset_ids                           *)
(***************************************************************************)
\* folder_id, then dataset_id, without the empty ones and without a repeat
ExplicitGiven ==
    LET f == res_request.folder_id
        d == res_request.dataset_id
    IN  (IF f # NoDataset THEN <<f>> ELSE <<>>)
            \o (IF d # NoDataset /\ d # f THEN <<d>> ELSE <<>>)

\* C12: the returned list holds no identifier twice, begins with the explicit
\* identifiers in the order given (folder_id before dataset_id), and every
\* identifier that comes from the prompt stands after all explicit ones.
C12_ExplicitFirstNoDuplicates ==
    res_call = "returned" =>
        /\ \A j, k \in 1..Len(resolved_ids) : j # k => resolved_ids[j] # resolved_ids[k]
        /\ Len(resolved_ids) >= Len(ExplicitGiven)
        /\ SubSeq(resolved_ids, 1, Len(ExplicitGiven)) = ExplicitGiven
        /\ \A k \in (Len(ExplicitGiven) + 1)..Len(resolved_ids) :
              /\ resolved_ids[k] \notin Range(ExplicitGiven)
              /\ resolved_ids[k] \in Range(res_request.path_matched)
                                      \cup Range(res_request.plain_matched)

\* both explicit identifiers given, and the prompt mentions one of them again
\* and a dataset that was not given
C12_Witness ==
    /\ res_call = "returned"
    /\ Len(ExplicitGiven) = 2
    /\ Len(resolved_ids) = 3
    /\ \E k \in 1..Len(res_request.plain_matched) :
          res_request.plain_matched[k] = res_request.folder_id
    /\ res_request.dataset_id = MaxDatasets + 1

\* C13: when the read of the user's datasets or of the user's environments
\* fails, the call returns (it does not raise) exactly the explicit
\* identifiers without repeats, and nothing from the prompt.
C13_LookupFailureReturnsExplicit ==
    /\ res_lookup \in {"datasets_failed", "environments_failed"} =>
          /\ res_call = "returned"
          /\ resolved_ids = ExplicitGiven
    /\ res_call \in {"idle", "called", "lookup", "matching", "returned"}

\* the environments read failed for a prompt whose mentions would have matched
C13_Witness ==
    /\ res_lookup = "environments_failed"
    /\ res_call = "returned"
    /\ res_request.plain_matched # <<>>
    /\ \E k \in 1..Len(res_request.plain_matched) :
          /\ res_request.plain_matched[k] # NoDataset
          /\ res_request.plain_matched[k] \notin Range(resolved_ids)
    /\ resolved_ids # <<>>

(***************************************************************************)
(* Termination of a generation request and of the rerank call it makes     *)
(***************************************************************************)
RequestOver == g_pc \in {"done", "failed", "aborted"}

RerankOver == rr_call \in {"idle", "passed_through", "returned"}

\* the steps _deduct_credits has left
DeductLeft ==
    CASE d_pc[GenCaller] = "read" -> 4
      [] d_pc[GenCaller] = "update" -> 3
      [] d_pc[GenCaller] = "log_transaction" -> 2
      [] d_pc[GenCaller] = "log_usage" -> 1
      [] OTHER -> 0

\* the provider calls and assemblies the attempt loop has left at most
CallsLeft ==
    (GEMINI_MAX_RETRIES - gen_try) + (IF attempt = 0 THEN GEMINI_MAX_RETRIES + 1 ELSE 0)

\* a bound on the steps a generation request has left
RequestLeft ==
    CASE RequestOver -> 0
      [] g_pc = "metering" -> 1 + DeductLeft
      [] g_pc = "recorded" -> 6
      [] g_pc = "recording" -> 7
      [] g_pc = "uploading" -> 8
      [] g_pc = "generating" -> 9 + CallsLeft
      [] g_pc = "assembling" ->
            10 + GEMINI_MAX_RETRIES - 1 + (IF attempt = 0 THEN GEMINI_MAX_RETRIES + 1 ELSE 0)
      [] g_pc = "downloading" -> 11 + 2 * GEMINI_MAX_RETRIES
      [] g_pc = "ranking" -> 12 + 2 * GEMINI_MAX_RETRIES
      [] g_pc = "resolving" -> 13 + 2 * GEMINI_MAX_RETRIES
      [] OTHER -> 14 + 2 * GEMINI_MAX_RETRIES

\* a bound on the steps a rerank call has left
RerankLeft ==
    CASE RerankOver -> 0
      [] rr_call = "looping" ->
            IF rr_loop.hard_failure THEN 1
            ELSE 2 + (Max(0, Len(rr_images_data) - rr_loop.start)
                        + VISION_RERANK_BATCH_SIZE - 1) \div VISION_RERANK_BATCH_SIZE
      [] OTHER -> 3 + (Len(rr_images_data) + VISION_RERANK_BATCH_SIZE - 1)
                        \div VISION_RERANK_BATCH_SIZE

\* the rerank call can take a step: it passes through or enters the loop, and
\* in the loop it returns or takes the next batch, whose downloads and vision
\* calls have some outcome
RerankCanStep ==
    \/ rr_call = "called"
          /\ (Len(rr_images_data) <= rr_max_images \/ Len(rr_images_data) > rr_max_images)
    \/ rr_call = "looping"
          /\ (RerankLoopDone \/ rr_loop.start < Len(rr_images_data))

\* the provider calls made for assembled attempt a
CallsOf(a) == {k \in 1..Len(provider_log) : provider_log[k].attempt = a}

\* C30: every generation request terminates whatever the providers answer:
\* it makes at most 2 assembled attempts with at most GEMINI_MAX_RETRIES (3)
\* provider calls each, at most 6 in all, and at most
\* VISION_RERANK_MAX_RETRIES (3) vision calls for a rerank batch; a request
\* or rerank call that is not over can always take a step, and every step
\* lowers a bound on the steps left.
C30_RequestTerminates ==
    /\ [](/\ attempt \in {0, 1}
          /\ \A k \in 1..Len(provider_log) :
                /\ provider_log[k].attempt \in {0, 1}
                /\ provider_log[k].try \in 1..GEMINI_MAX_RETRIES
          /\ \A a \in {0, 1} : Cardinality(CallsOf(a)) <= GEMINI_MAX_RETRIES
          /\ Len(provider_log) <= 2 * GEMINI_MAX_RETRIES
          /\ rr_loop.attempts <= VISION_RERANK_MAX_RETRIES
          /\ rr_loop.vision_calls <=
                VISION_RERANK_MAX_RETRIES *
                    ((rr_loop.start + (IF rr_loop.hard_failure THEN VISION_RERANK_BATCH_SIZE ELSE 0))
                        \div VISION_RERANK_BATCH_SIZE)
          /\ RequestLeft >= 0 /\ RerankLeft >= 0
          /\ ~RequestOver => ENABLED GenNext
          /\ ~RerankOver => RerankCanStep)
    /\ [][RequestLeft' + RerankLeft' < RequestLeft + RerankLeft]_vars

\* a request that used every call it may make: two assembled attempts of three
\* provider calls each, the last of them failing
C30_Witness ==
    /\ g_pc = "failed"
    /\ Len(provider_log) = 2 * GEMINI_MAX_RETRIES
    /\ Cardinality(CallsOf(0)) = GEMINI_MAX_RETRIES
    /\ Cardinality(CallsOf(1)) = GEMINI_MAX_RETRIES

(***************************************************************************)
(* Properties of the mention helpers                                       *)
(***************************************************************************)
MentionNorm == _normalize_lookup_text(mn_query.folder_name)

FolderNorm(k) == _normalize_lookup_text(mn_datasets[k].name)

\* the places in the folder list of the folders that qualify by each method
ExactFolders == {k \in 1..Len(mn_datasets) : FolderNorm(k) = MentionNorm}

ContainmentFolders ==
    {k \in 1..Len(mn_datasets) :
        Contains(MentionNorm, FolderNorm(k)) \/ Contains(FolderNorm(k), MentionNorm)}

FuzzyFolders == {k \in 1..Len(mn_datasets) : CloseEnough(FolderNorm(k), MentionNorm)}

Earliest(places) == mn_datasets[CHOOSE k \in places : \A j \in places : k <= j]

\* C24: for a mention that is not empty, _match_dataset_by_name returns the
\* earliest folder whose normalized name equals the normalized mention when
\* there is one; otherwise the earliest folder whose normalized name contains
\* the mention or is contained in it when there is one; otherwise a folder
\* whose name is within the fuzzy cutoff of the mention when there is one;
\* otherwise nothing.
C24_MatchPrecedence ==
    (mn_call = "returned" /\ mn_query.folder_name # <<>>) =>
        IF ExactFolders # {} THEN mn_result = <<Earliest(ExactFolders)>>
        ELSE IF ContainmentFolders # {} THEN mn_result = <<Earliest(ContainmentFolders)>>
        ELSE IF FuzzyFolders # {}
        THEN mn_result # <<>> /\ mn_result[1].id \in FuzzyFolders
        ELSE mn_result = <<>>

\* two folders of different names qualify by containment, none by equality:
\* the first of the list was returned
C24_Witness ==
    /\ mn_call = "returned"
    /\ ExactFolders = {}
    /\ ContainmentFolders = {1, 2}
    /\ FolderNorm(1) # FolderNorm(2)
    /\ mn_result = <<mn_datasets[1]>>

\* the environments the environment fragment of the path mention matches
MatchedEnvironments ==
    EnvIdsOf(_fuzzy_match_key(_normalize_lookup_text(mn_query.env_name),
                              EnvKeys(mn_environments)),
             mn_environments)

\* C25: for a path mention @env/folder whose environment fragment matches one
\* of the user's environments, the folder resolved for the mention belongs to
\* a matched environment, or the mention resolves to nothing; a folder of
\* another environment is returned only when no environment matches.
C25_PathMentionStaysInEnvironment ==
    (mn_call = "returned" /\ mn_query.env_name # <<>> /\ MatchedEnvironments # {}) =>
        \/ mn_result = <<>>
        \/ mn_result[1].environment_id \in MatchedEnvironments

\* the "@" of the prompt that open a path-style mention, and those that do not
PathMentionStarts ==
    {i \in 1..Len(mn_prompt) : mn_prompt[i] = "@" /\ PathMatchAt(mn_prompt, i) # NoMatch}

OtherMentionStarts ==
    {i \in 1..Len(mn_prompt) : mn_prompt[i] = "@" /\ PathMatchAt(mn_prompt, i) = NoMatch}

\* C26: _extract_prompt_dataset_mentions reports a path-style mention
\* @env/folder only as a path mention: every plain mention it returns is the
\* trimmed name that follows an "@" which opens no path-style mention.
C26_PathMentionNotAlsoPlain ==
    mn_call = "returned" =>
        \A k \in 1..Len(mn_result.plain) :
            \E i \in OtherMentionStarts :
                /\ PlainMatchAt(mn_prompt, i) # NoMatch
                /\ _trim_mention_phrase(PlainMatchAt(mn_prompt, i).group) = mn_result.plain[k]

(***************************************************************************)
(* Properties of analyze_dataset_images_fast                               *)
(***************************************************************************)
FastOver == af_pc \in {"done", "failed"}

\* C27: during analyze_dataset_images_fast at most FAST_CONCURRENCY images are
\* being processed at any moment; every URL is processed exactly once; and the
\* credits of a logged-in user with a balance row are deducted once, after all
\* images have finished, for exactly the number of results stored: nothing is
\* written to the ledger before, and when the request is over the balance has
\* gone down by that number, with one transaction row for it when it is not 0.
C27_BoundedOnceAndMeteredOnce ==
    /\ Cardinality(Holding) <= FAST_CONCURRENCY
    /\ \A i \in 1..Len(af_tasks) :
          /\ af_tasks[i].entered <= 1
          /\ Finished(i) => af_tasks[i].entered = 1
    /\ (FastOver /\ af_request.urls > 0) => \A i \in 1..Len(af_tasks) : Finished(i)
    /\ (\E i \in 1..Len(af_tasks) : ~Finished(i)) =>
          /\ credit_transactions = <<>>
          /\ usage_logs = <<>>
          /\ \A k \in 1..Len(credit_balances) : credit_balances[k].used_credits = 0
    /\ (FastOver /\ af_request.authenticated /\ credit_balances # <<>>) =>
          /\ credit_balances[1].used_credits =
                Cardinality(valid_results) * ANALYZE_DATASET_PER_IMAGE_COST
          /\ credit_balances[1].remaining_credits =
                credit_balances[1].total_credits - credit_balances[1].used_credits
          /\ Len(credit_transactions) = IF valid_results = {} THEN 0 ELSE 1

(***************************************************************************)
(* Properties of delete_folder                                             *)
(***************************************************************************)
\* C20: when delete_folder has returned success for a folder, no dataset_images
\* row of that folder exists and none of the blobs its rows referenced is in
\* the bucket.
C20_DeletedFolderLeavesNoRowsNoBlobs ==
    (del_call.pc = "done" /\ del_call.result = 200) =>
        /\ FolderImages(del_call.folder_id) = {}
        /\ del_call.referenced \cap dataset_blobs = {}

(***************************************************************************)
(* Properties of create_environment and update_environment                 *)
(***************************************************************************)
\* C21: at all times no two environment rows of the user have names that are
\* equal after whitespace and case normalization, and a call that ends with
\* 409 has changed no row.
C21_EnvironmentNamesUnique ==
    /\ [](\A j, k \in 1..Len(environments) :
              j # k => Lower(_normalize_entity_name(environments[j].name))
                          # Lower(_normalize_entity_name(environments[k].name)))
    /\ [][\A p \in EnvCallers :
              (env_call'[p].result = 409 /\ env_call[p].result # 409) =>
                  environments' = environments]_vars

RankNext == RankSemantic

InitRank == RankInit /\ RerankIdle /\ LedgerIdle /\ DeductIdle /\ GenIdle /\ ResolveIdle /\ DeleteIdle
    /\ EnvIdle /\ MentionIdle /\ FastIdle

SpecRank == InitRank /\ [][RankNext]_vars

InitRerank == RerankInit /\ RankIdle /\ LedgerIdle /\ DeductIdle /\ GenIdle /\ ResolveIdle /\ DeleteIdle
    /\ EnvIdle /\ MentionIdle /\ FastIdle

SpecRerank == InitRerank /\ [][RerankNext]_vars

\* the metered endpoints, each calling _deduct_credits once
CreditsCall(p) ==
    /\ \E action \in MeteredActions : \E credits \in ActionCredits(action) :
          DeductCall(p, action, credits)
    /\ UNCHANGED creditsOthers

CreditsStep(p) == DeductStep(p) /\ UNCHANGED creditsOthers

CreditsNext == \E p \in Callers : CreditsCall(p) \/ CreditsStep(p)

InitCredits == LedgerInit /\ DeductIdle /\ RankIdle /\ RerankIdle /\ GenIdle /\ ResolveIdle /\ DeleteIdle
    /\ EnvIdle /\ MentionIdle /\ FastIdle

SpecCredits == InitCredits /\ [][CreditsNext]_vars

InitGen == GenInit /\ LedgerInit /\ DeductIdle /\ RankIdle /\ RerankIdle /\ ResolveIdle /\ DeleteIdle
    /\ EnvIdle /\ MentionIdle /\ FastIdle

SpecGen == InitGen /\ [][GenNext]_vars

\* a generation request, or one call of the reranker made for it
InitGenRerank ==
    /\ \/ GenInit /\ LedgerInit /\ RerankIdle
       \/ GenIdle /\ LedgerIdle /\ RerankInit
    /\ DeductIdle /\ RankIdle /\ ResolveIdle /\ DeleteIdle
    /\ EnvIdle /\ MentionIdle /\ FastIdle

GenRerankNext == GenNext \/ RerankNext

SpecGenRerank == InitGenRerank /\ [][GenRerankNext]_vars

InitResolve ==
    ResolveInit /\ RankIdle /\ RerankIdle /\ LedgerIdle /\ DeductIdle /\ GenIdle
        /\ DeleteIdle /\ EnvIdle /\ MentionIdle /\ FastIdle

SpecResolve == InitResolve /\ [][ResolveNext]_vars

InitDelete ==
    DeleteInit /\ RankIdle /\ RerankIdle /\ LedgerIdle /\ DeductIdle /\ GenIdle
        /\ ResolveIdle /\ EnvIdle /\ MentionIdle /\ FastIdle

SpecDelete == InitDelete /\ [][DeleteNext]_vars

InitEnv ==
    EnvInit /\ RankIdle /\ RerankIdle /\ LedgerIdle /\ DeductIdle /\ GenIdle
        /\ ResolveIdle /\ DeleteIdle /\ MentionIdle /\ FastIdle

SpecEnv == InitEnv /\ [][EnvNext]_vars

InitMatch ==
    MatchInit /\ RankIdle /\ RerankIdle /\ LedgerIdle /\ DeductIdle /\ GenIdle
        /\ ResolveIdle /\ DeleteIdle /\ EnvIdle /\ FastIdle

SpecMatch == InitMatch /\ [][MatchByName]_vars

InitPathMention ==
    PathMentionInit /\ RankIdle /\ RerankIdle /\ LedgerIdle /\ DeductIdle /\ GenIdle
        /\ ResolveIdle /\ DeleteIdle /\ EnvIdle /\ FastIdle

SpecPathMention == InitPathMention /\ [][ResolvePathMention]_vars

InitExtract ==
    ExtractInit /\ RankIdle /\ RerankIdle /\ LedgerIdle /\ DeductIdle /\ GenIdle
        /\ ResolveIdle /\ DeleteIdle /\ EnvIdle /\ FastIdle

SpecExtract == InitExtract /\ [][ExtractMentions]_vars

InitFast ==
    FastInit /\ LedgerInit /\ DeductIdle /\ RankIdle /\ RerankIdle /\ GenIdle
        /\ ResolveIdle /\ DeleteIdle /\ EnvIdle /\ MentionIdle

SpecFast == InitFast /\ [][FastNext]_vars

=============================================================================
